---------------------------- MODULE Spec2Model ----------------------------
(***************************************************************************)
(* Model of the GeoTIFF temperature viewer (src/app.py): the               *)
(* DataQualityValidator (classification, validation, neighbour             *)
(* interpolation) and the GeoTIFFViewer session state (load_geotiff,       *)
(* on_band_changed, on_image_click and the grid-average cache).            *)
(*                                                                         *)
(* Temperatures are fixed-point integers in hundredths of a degree:        *)
(* 273.15 is 27315, the tolerance 0.01 is 1.  NaN and the infinities are   *)
(* reserved codes; every comparison goes through the IEEE-aware operators  *)
(* below (a comparison with NaN is false).                                 *)
(***************************************************************************)
EXTENDS Integers, Sequences, FiniteSets, TLC

VARIABLES
    probe,               \* the last direct call of a function and its result
    dataset,             \* self.dataset
    raster_data,         \* self.raster_data
    band_count,          \* self.band_count
    current_band,        \* self.current_band
    display_mode,        \* self.display_mode
    validator,           \* self.validator
    grid_size,           \* self.grid_size
    grid_rows,           \* self.grid_rows
    grid_cols,           \* self.grid_cols
    grid_averages,       \* self.grid_averages
    preview_scale_x,     \* self.preview_scale_x
    preview_scale_y,     \* self.preview_scale_y
    pixmap_item,         \* graphics_view._pixmap_item
    reset_enabled,       \* reset_btn.isEnabled()
    last_click_preview,  \* self.last_click_preview_x, _y
    last_click_raster,   \* self.last_click_raster_x, _y
    temp_label,          \* temp_label
    click_out,           \* how the last on_image_click ended
    load,                \* the load_geotiff call under way
    loads                \* the number of load_geotiff calls so far

viewer ==
    <<dataset, raster_data, band_count, current_band, display_mode, validator,
      grid_size, grid_rows, grid_cols, grid_averages, preview_scale_x,
      preview_scale_y, pixmap_item, reset_enabled, last_click_preview,
      last_click_raster, temp_label, click_out, load, loads>>

vars == <<probe, viewer>>

(***************************************************************************)
(* Floating-point values                                                   *)
(***************************************************************************)
NaN == 1000000001
PosInf == 1000000000
NegInf == -1000000000

IsNaN(v) == v = NaN
IsFinite(v) == v # NaN /\ v # PosInf /\ v # NegInf

Abs(x) == IF x < 0 THEN -x ELSE x

\* int(np.ceil(a / b)) for positive integers
CeilDiv(a, b) == (a + b - 1) \div b

\* a < b, a <= b, a > b, a >= b on floats: false as soon as one side is NaN
Lt(a, b) == a # NaN /\ b # NaN /\ a < b
Le(a, b) == a # NaN /\ b # NaN /\ a <= b
Gt(a, b) == Lt(b, a)
Ge(a, b) == Le(b, a)

\* a - b with b finite
Minus(a, b) == IF IsFinite(a) THEN a - b ELSE a

\* np.isclose(a, b, atol=atol) with numpy's default rtol = 1e-5:
\* |a - b| <= atol + rtol * |b| for finite operands, a == b otherwise.
\* On the fixed-point grid d <= atol + |b| / 100000 iff d <= atol + floor(|b| / 100000).
RTOL_DEN == 100000
IsClose(a, b, atol) ==
    IF IsFinite(a) /\ IsFinite(b)
    THEN Abs(a - b) <= atol + (Abs(b) \div RTOL_DEN)
    ELSE a # NaN /\ b # NaN /\ a = b

(***************************************************************************)
(* DataQualityValidator: class constants                                   *)
(***************************************************************************)
NORMAL_MIN == 0
NORMAL_MAX == 5000
UNUSUAL_MIN == -6000
UNUSUAL_MAX == 7000
IMPOSSIBLE_MIN == -10000
IMPOSSIBLE_MAX == 10000
KELVIN_NORMAL_MIN == 27315
KELVIN_NORMAL_MAX == 32315
KELVIN_UNUSUAL_MIN == 21315
KELVIN_UNUSUAL_MAX == 34315
\* "value > 100" : the Kelvin / Celsius threshold
KELVIN_THRESHOLD == 10000
\* "value - 273.15"
KELVIN_OFFSET == 27315
\* atol=0.01
NODATA_ATOL == 1
\* the wide Kelvin sanity band of create_valid_mask
KELVIN_MASK_MIN == 15000
KELVIN_MASK_MAX == 40000

\* the validator object: dataset.nodata (None when nodata_set is FALSE),
\* scale (scale_num / scale_den) and offset of its band
Validator(nodata_set, nodata_value, scale_num, scale_den, offset) ==
    [nodata_set |-> nodata_set, nodata_value |-> nodata_value,
     scale_num |-> scale_num, scale_den |-> scale_den, offset |-> offset]

\* the Celsius equivalent used everywhere: value - 273.15 when value > 100
ToCelsius(value) ==
    IF Gt(value, KELVIN_THRESHOLD) THEN Minus(value, KELVIN_OFFSET) ELSE value

\* faulty variant: nothing is ever rejected as impossible
ClassifyNoWideBand(value) ==
    IF Gt(value, KELVIN_THRESHOLD)
    THEN IF Le(KELVIN_NORMAL_MIN, value) /\ Le(value, KELVIN_NORMAL_MAX)
         THEN "normal" ELSE "unusual"
    ELSE IF Le(NORMAL_MIN, value) /\ Le(value, NORMAL_MAX)
         THEN "normal" ELSE "unusual"

\* faulty variant: the range bounds are compared strictly
ClassifyOpenBounds(value) ==
    IF Gt(value, KELVIN_THRESHOLD)
    THEN IF Lt(KELVIN_NORMAL_MIN, value) /\ Lt(value, KELVIN_NORMAL_MAX)
         THEN "normal"
         ELSE IF Lt(KELVIN_UNUSUAL_MIN, value) /\ Lt(value, KELVIN_UNUSUAL_MAX)
              THEN "unusual" ELSE "impossible"
    ELSE IF Lt(NORMAL_MIN, value) /\ Lt(value, NORMAL_MAX)
         THEN "normal"
         ELSE IF Lt(UNUSUAL_MIN, value) /\ Lt(value, UNUSUAL_MAX)
              THEN "unusual" ELSE "impossible"

\* faulty variant: every value is read as Celsius
ClassifyCelsiusOnly(value) ==
    IF Le(NORMAL_MIN, value) /\ Le(value, NORMAL_MAX)
    THEN "normal"
    ELSE IF Le(UNUSUAL_MIN, value) /\ Le(value, UNUSUAL_MAX)
         THEN "unusual" ELSE "impossible"

\* classify_temperature_level
classify_temperature_level(value) ==
    IF Gt(value, KELVIN_THRESHOLD)
    THEN IF Le(KELVIN_NORMAL_MIN, value) /\ Le(value, KELVIN_NORMAL_MAX)
         THEN "normal"
         ELSE IF Le(KELVIN_UNUSUAL_MIN, value) /\ Le(value, KELVIN_UNUSUAL_MAX)
              THEN "unusual" ELSE "impossible"
    ELSE IF Le(NORMAL_MIN, value) /\ Le(value, NORMAL_MAX)
         THEN "normal"
         ELSE IF Le(UNUSUAL_MIN, value) /\ Le(value, UNUSUAL_MAX)
              THEN "unusual" ELSE "impossible"

\* the messages of validate_single_value (the formatted number is left out)
MSG_NODATA == "NoData value (from metadata)"
MSG_INVALID == "Invalid (NaN or Inf)"
MSG_NORMAL == "Normal range"
MSG_COLD == "Extreme cold"
MSG_HOT == "Extreme hot"
MSG_IMPOSSIBLE == "Impossible value - likely NoData"

ValidateResult(usable, msg, level) ==
    [usable |-> usable, msg |-> msg, level |-> level]

\* faulty variant: an impossible value is reported as usable
ValidateImpossibleUsable(this, value) ==
    IF this.nodata_set /\ IsClose(value, this.nodata_value, NODATA_ATOL)
    THEN ValidateResult(FALSE, MSG_NODATA, "impossible")
    ELSE IF ~IsFinite(value)
    THEN ValidateResult(FALSE, MSG_INVALID, "impossible")
    ELSE LET level == classify_temperature_level(value) IN
         IF level = "normal" THEN ValidateResult(TRUE, MSG_NORMAL, "normal")
         ELSE IF level = "unusual"
              THEN IF Lt(value, 0) THEN ValidateResult(TRUE, MSG_COLD, "unusual")
                   ELSE ValidateResult(TRUE, MSG_HOT, "unusual")
              ELSE ValidateResult(TRUE, MSG_IMPOSSIBLE, "impossible")

\* validate_single_value
validate_single_value(this, value) ==
    IF this.nodata_set /\ IsClose(value, this.nodata_value, NODATA_ATOL)
    THEN ValidateResult(FALSE, MSG_NODATA, "impossible")
    ELSE IF ~IsFinite(value)
    THEN ValidateResult(FALSE, MSG_INVALID, "impossible")
    ELSE LET level == classify_temperature_level(value) IN
         IF level = "normal" THEN ValidateResult(TRUE, MSG_NORMAL, "normal")
         ELSE IF level = "unusual"
              THEN IF Lt(value, 0) THEN ValidateResult(TRUE, MSG_COLD, "unusual")
                   ELSE ValidateResult(TRUE, MSG_HOT, "unusual")
              ELSE ValidateResult(FALSE, MSG_IMPOSSIBLE, "impossible")

(***************************************************************************)
(* Optional values: None or one value                                      *)
(***************************************************************************)
None == <<>>
Some(x) == <<x>>
IsNone(o) == o = <<>>
IsSome(o) == o # <<>>
Val(o) == o[1]

(***************************************************************************)
(* GeoTIFFViewer: the session state                                        *)
(***************************************************************************)
\* self.*: the attributes the operators below read
Self ==
    [dataset |-> dataset, raster_data |-> raster_data,
     band_count |-> band_count, current_band |-> current_band,
     display_mode |-> display_mode, validator |-> validator,
     grid_size |-> grid_size, grid_rows |-> grid_rows, grid_cols |-> grid_cols,
     grid_averages |-> grid_averages,
     preview_scale_x |-> preview_scale_x, preview_scale_y |-> preview_scale_y,
     last_click_preview |-> last_click_preview,
     last_click_raster |-> last_click_raster,
     temp_label |-> temp_label, click_out |-> click_out]

\* self.grid_averages = {}
EmptyCache == [k \in {} |-> 0]

\* temp_label: "Temp: -" until a click writes a temperature into it
LabelDash == [kind |-> "dash", value |-> NaN]
Label(kind, value) == [kind |-> kind, value |-> value]

\* how the last call of on_image_click ended
ClickOut(path, value, level) == [path |-> path, value |-> value, level |-> level]
NoClick == ClickOut("none", NaN, "none")

\* the locals of a load_geotiff call that is under way
NoLoad ==
    [pc |-> "idle", file |-> "", scale_factor |-> 1, width |-> 0, height |-> 0,
     preview_width |-> 0, preview_height |-> 0]

\* GeoTIFFViewer.__init__
Constructed ==
    /\ dataset = None
    /\ raster_data = None
    /\ band_count = 0
    /\ current_band = 1
    /\ display_mode = "SINGLE_BAND"
    /\ validator = None
    /\ grid_size = 50
    /\ grid_rows = 0
    /\ grid_cols = 0
    /\ grid_averages = EmptyCache
    /\ preview_scale_x = <<1, 1>>
    /\ preview_scale_y = <<1, 1>>
    /\ pixmap_item = None
    /\ reset_enabled = FALSE
    /\ last_click_preview = None
    /\ last_click_raster = None
    /\ temp_label = LabelDash
    /\ click_out = NoClick
    /\ load = NoLoad
    /\ loads = 0

(***************************************************************************)
(* DataQualityValidator.create_valid_mask and calculate_quality_stats      *)
(* A band is the sequence of its pixels (data.flat); both functions work   *)
(* element by element and on data.size, whatever the shape.                *)
(***************************************************************************)
\* the first two steps of the mask: not the declared nodata, and finite
MaskKeep(this, value) ==
    /\ ~(this.nodata_set /\ IsClose(value, this.nodata_value, NODATA_ATOL))
    /\ IsFinite(value)

\* np.nanmin(data[mask]) of a non-empty set of finite values
NanMin(values) == CHOOSE v \in values : \A w \in values : v <= w

\* the last step: the range test chosen from data_min
MaskRange(data_min, value) ==
    IF data_min > KELVIN_THRESHOLD
    THEN Ge(value, KELVIN_MASK_MIN) /\ Le(value, KELVIN_MASK_MAX)
    ELSE Ge(value, IMPOSSIBLE_MIN) /\ Le(value, IMPOSSIBLE_MAX)

\* data_min = np.nanmin(data[mask]) if np.any(mask) else 0
MaskDataMin(kept) == IF kept = {} THEN 0 ELSE NanMin(kept)

create_valid_mask(this, data) ==
    LET data_min ==
            MaskDataMin({data[i] : i \in {j \in DOMAIN data : MaskKeep(this, data[j])}})
    IN  [i \in DOMAIN data |->
            MaskKeep(this, data[i]) /\ MaskRange(data_min, data[i])]

\* a >= b on fractions with positive denominators
FractionGe(a, b) == a[1] * b[2] >= b[1] * a[2]

\* the quality level with the thresholds excluded from the level they open
QualityLevelStrict(valid_percentage) ==
    IF ~FractionGe(<<95, 1>>, valid_percentage) THEN "Excellent"
    ELSE IF ~FractionGe(<<80, 1>>, valid_percentage) THEN "Good"
    ELSE IF ~FractionGe(<<60, 1>>, valid_percentage) THEN "Fair"
    ELSE IF ~FractionGe(<<30, 1>>, valid_percentage) THEN "Poor"
    ELSE "Very Poor"

QualityLevel(valid_percentage) ==
    IF FractionGe(valid_percentage, <<95, 1>>) THEN "Excellent"
    ELSE IF FractionGe(valid_percentage, <<80, 1>>) THEN "Good"
    ELSE IF FractionGe(valid_percentage, <<60, 1>>) THEN "Fair"
    ELSE IF FractionGe(valid_percentage, <<30, 1>>) THEN "Poor"
    ELSE "Very Poor"

\* valid_pixels / total_pixels * 100 as the fraction <<numerator,
\* denominator>>; the float product meets each threshold exactly when the
\* fraction does
ValidPercentage(valid_pixels, total_pixels) ==
    IF total_pixels > 0 THEN <<valid_pixels * 100, total_pixels>> ELSE <<0, 1>>

QualityStats(this, valid_pixels, total_pixels) ==
    [valid_percentage |-> ValidPercentage(valid_pixels, total_pixels),
     quality_level |-> QualityLevel(ValidPercentage(valid_pixels, total_pixels)),
     valid_pixels |-> valid_pixels,
     total_pixels |-> total_pixels,
     has_nodata |-> this.nodata_set]

\* np.sum(mask)
MaskSum(mask) == Cardinality({i \in DOMAIN mask : mask[i]})

calculate_quality_stats(this, data) ==
    QualityStats(this, MaskSum(create_valid_mask(this, data)), Len(data))

(***************************************************************************)
(* DataQualityValidator.get_valid_data and detect_temperature_unit         *)
(***************************************************************************)
\* the positions of data[mask]
get_valid_data(this, data) ==
    {i \in DOMAIN data : create_valid_mask(this, data)[i]}

\* the names an attribute lookup on a DataQualityValidator finds: the class
\* constants, the fields __init__ and calculate_quality_stats assign, and
\* the methods
ValidatorAttributes ==
    {"NORMAL_MIN", "NORMAL_MAX", "UNUSUAL_MIN", "UNUSUAL_MAX",
     "IMPOSSIBLE_MIN", "IMPOSSIBLE_MAX", "KELVIN_NORMAL_MIN",
     "KELVIN_NORMAL_MAX", "KELVIN_UNUSUAL_MIN", "KELVIN_UNUSUAL_MAX",
     "dataset", "band_index", "nodata_value", "scale", "offset",
     "total_pixels", "valid_pixels", "valid_percentage", "quality_level",
     "apply_metadata_transforms", "create_valid_mask", "get_valid_data",
     "calculate_quality_stats", "detect_temperature_unit",
     "classify_temperature_level", "validate_single_value",
     "interpolate_from_neighbors"}

\* the exception of reading self.<name>, "" when the lookup finds the name
AttributeLookup(name) ==
    IF name \in ValidatorAttributes THEN "" ELSE "AttributeError"

\* "Unknown" for an empty selection; otherwise the first range check reads
\* self.KELVIN_MIN, which the lookup does not find, and the call ends there
\* before any label is chosen
detect_temperature_unit(this, data) ==
    IF get_valid_data(this, data) = {}
    THEN [raised |-> "", unit |-> "Unknown"]
    ELSE [raised |-> AttributeLookup("KELVIN_MIN"), unit |-> ""]

(***************************************************************************)
(* Calls of the validator's single-value functions on bounded inputs       *)
(***************************************************************************)
\* half-width of the window of values taken around every threshold
ValWindow == 2

\* the thresholds of the classification, the sentinel -9999 and the ends of
\* its np.isclose band
Thresholds ==
    {IMPOSSIBLE_MIN, UNUSUAL_MIN, NORMAL_MIN, NORMAL_MAX, UNUSUAL_MAX,
     IMPOSSIBLE_MAX, KELVIN_MASK_MIN, KELVIN_UNUSUAL_MIN, KELVIN_NORMAL_MIN,
     KELVIN_NORMAL_MAX, KELVIN_UNUSUAL_MAX, KELVIN_MASK_MAX,
     -999900, -999910, -999890, 2000, -8000, 18000, 25000}

TestValues ==
    UNION {{t + d : d \in (-ValWindow)..ValWindow} : t \in Thresholds}
      \cup {NaN, PosInf, NegInf}

TestValidators ==
    {Validator(FALSE, 0, 1, 1, 0)} \cup
    {Validator(TRUE, nd, 1, 1, 0) : nd \in {-999900, 0, 2000, NaN, PosInf}}

NoProbe == [op |-> "none"]

ClassifyCall ==
    /\ probe.op = "input"
    /\ probe' = [op |-> "classify", validator |-> probe.validator,
                 value |-> probe.value,
                 level |-> classify_temperature_level(probe.value)]
    /\ UNCHANGED viewer

ValidateCall ==
    /\ probe.op = "input"
    /\ probe' = [op |-> "validate", validator |-> probe.validator,
                 value |-> probe.value,
                 result |-> validate_single_value(probe.validator, probe.value)]
    /\ UNCHANGED viewer

InitValidate ==
    /\ probe \in [op : {"input"}, validator : TestValidators, value : TestValues]
    /\ Constructed

NextValidate == ClassifyCall \/ ValidateCall

SpecValidate == InitValidate /\ [][NextValidate]_vars

(***************************************************************************)
(* The files the viewer is pointed at (what rasterio reads from disk)      *)
(***************************************************************************)
\* site_a.tif   one band 22x22, nodata -9999: 20 C, one sentinel pixel and a
\*              corner block at -46 C
\* site_b.tif   one band 22x22: a 20x20 block at 30 C, the rest 293.15 K
\* stack.tif    three bands 4x3: 500 K, the sentinel -9999, 15..18 C
\* mosaic.tif   one band 8000x6251 (more than 50M pixels): 25 C and 35 C
\* scaled.tif   one band 22x22 stored with scale 10: 3.00 everywhere, 30 C
\* mixed.tif    one band 4x4: columns of 20 C alternate with columns of 293.15 K
\* masked.tif   one band 4x4, nodata 0: two columns of 0 (nodata), two of 30 C
\* truncated.tif  opens, reading its pixels raises
\* corrupt.tif    rasterio.open raises
Files ==
    {"site_a.tif", "site_b.tif", "stack.tif", "mosaic.tif", "scaled.tif",
     "mixed.tif", "masked.tif", "truncated.tif", "corrupt.tif"}

FileRecord(openable, readable, count, width, height, nodata) ==
    [openable |-> openable, readable |-> readable, count |-> count,
     width |-> width, height |-> height, nodata |-> nodata,
     scales |-> [b \in 1..count |-> <<1, 1>>],
     offsets |-> [b \in 1..count |-> 0]]

FileInfo(file) ==
    CASE file = "site_a.tif" -> FileRecord(TRUE, TRUE, 1, 22, 22, Some(-999900))
      [] file = "site_b.tif" -> FileRecord(TRUE, TRUE, 1, 22, 22, None)
      [] file = "stack.tif" -> FileRecord(TRUE, TRUE, 3, 4, 3, Some(-999900))
      [] file = "mosaic.tif" -> FileRecord(TRUE, TRUE, 1, 8000, 6251, None)
      [] file = "scaled.tif" ->
            [FileRecord(TRUE, TRUE, 1, 22, 22, None)
                EXCEPT !.scales = [b \in 1..1 |-> <<10, 1>>]]
      [] file = "mixed.tif" -> FileRecord(TRUE, TRUE, 1, 4, 4, None)
      [] file = "masked.tif" -> FileRecord(TRUE, TRUE, 1, 4, 4, Some(0))
      [] file = "truncated.tif" -> FileRecord(TRUE, FALSE, 1, 22, 22, None)
      [] file = "corrupt.tif" -> FileRecord(FALSE, FALSE, 1, 1, 1, None)

\* the stored value of band `band` (1-indexed) at row r, column c
FilePixel(file, band, r, c) ==
    CASE file = "site_a.tif" ->
            IF r = 0 /\ c = 0 THEN -999900
            ELSE IF r >= 20 /\ c >= 20 THEN -4600 ELSE 2000
      [] file = "site_b.tif" ->
            IF r < 20 /\ c < 20 THEN 3000 ELSE 29315
      [] file = "stack.tif" ->
            IF band = 1 THEN 50000
            ELSE IF band = 2 THEN -999900 ELSE 1500 + 100 * c
      [] file = "mosaic.tif" ->
            IF c < 4000 THEN 2500 ELSE 3500
      [] file = "scaled.tif" -> 300
      [] file = "mixed.tif" -> IF c % 2 = 0 THEN 2000 ELSE 29315
      [] file = "masked.tif" -> IF c < 2 THEN 0 ELSE 3000
      [] OTHER -> NaN

\* rasterio.open(file_path): the dataset handle
Dataset(file) == [file |-> file, closed |-> FALSE]

\* dataset.close()
CloseDataset(ds) == [ds EXCEPT !.closed = TRUE]

(***************************************************************************)
(* Arrays                                                                  *)
(***************************************************************************)
\* a 2-D array held in memory: px[<<r, c>>] for 0 <= r < height, 0 <= c < width
PxArray(height, width, px) ==
    [kind |-> "px", height |-> height, width |-> width, px |-> px]

\* dataset.read(...): the array read from the file, 2-D (one band) or 3-D,
\* with out_shape = full size // scale_factor
ReadArray(file, ndim, scale_factor) ==
    [kind |-> "raster", file |-> file, ndim |-> ndim,
     bands |-> FileInfo(file).count,
     height |-> FileInfo(file).height \div scale_factor,
     width |-> FileInfo(file).width \div scale_factor,
     scale_factor |-> scale_factor]

\* max_pixels_to_load
MAX_PIXELS_TO_LOAD == 50000000

\* total_pixels = full_width * full_height * band_count
TotalPixels(file, count) == FileInfo(file).width * FileInfo(file).height * count

\* int(np.ceil(np.sqrt(total_pixels / max_pixels_to_load)))
ScaleFactor(total_pixels) ==
    IF total_pixels > MAX_PIXELS_TO_LOAD
    THEN CHOOSE s \in 1..64 :
            /\ s * s >= CeilDiv(total_pixels, MAX_PIXELS_TO_LOAD)
            /\ (s - 1) * (s - 1) < CeilDiv(total_pixels, MAX_PIXELS_TO_LOAD)
    ELSE 1

\* the array of a read: 2-D for a single band, 3-D otherwise
ArrayOf(file, scale_factor) ==
    ReadArray(file, IF FileInfo(file).count = 1 THEN 2 ELSE 3, scale_factor)

\* Resampling.average: the mean of the non-NaN source pixels of the
\* scale_factor x scale_factor block behind one output pixel (positions lo..hi)
RECURSIVE BlockSum(_, _, _, _, _, _, _)
BlockSum(file, band, r, c, scale_factor, lo, hi) ==
    IF lo > hi THEN <<0, 0>>
    ELSE IF lo = hi
    THEN LET v == FilePixel(file, band,
                            r * scale_factor + (lo \div scale_factor),
                            c * scale_factor + (lo % scale_factor))
         IN  IF IsFinite(v) THEN <<v, 1>> ELSE <<0, 0>>
    ELSE LET a == BlockSum(file, band, r, c, scale_factor, lo, (lo + hi) \div 2)
             b == BlockSum(file, band, r, c, scale_factor, ((lo + hi) \div 2) + 1, hi)
         IN  <<a[1] + b[1], a[2] + b[2]>>

BlockAverage(file, band, r, c, scale_factor) ==
    LET s == BlockSum(file, band, r, c, scale_factor,
                      0, scale_factor * scale_factor - 1)
    IN  IF s[2] = 0 THEN NaN ELSE s[1] \div s[2]

\* raster_data[r, c] (2-D) or raster_data[band - 1, r, c] (3-D)
RasterAt(raster, band, r, c) ==
    IF raster.scale_factor = 1
    THEN FilePixel(raster.file, IF raster.ndim = 2 THEN 1 ELSE band, r, c)
    ELSE BlockAverage(raster.file, IF raster.ndim = 2 THEN 1 ELSE band,
                      r, c, raster.scale_factor)

\* raster_data[band - 1] can be indexed: always for a 2-D array (the band is
\* not used), for a 3-D array when band is an int with 0 <= band - 1 < shape[0]
BAND_NONE == 0
BandIndexable(raster, band) ==
    raster.ndim = 2 \/ (band # BAND_NONE /\ band >= 1 /\ band <= raster.bands)

\* apply_metadata_transforms on one value: value * scale + offset unless the
\* scale is 1.0 and the offset 0.0
apply_metadata_transforms(this, value) ==
    IF this.scale_num # this.scale_den \/ this.offset # 0
    THEN IF IsFinite(value)
         THEN ((value * this.scale_num) \div this.scale_den)
                + this.offset
         ELSE value
    ELSE value

\* one band of raster_data after apply_metadata_transforms
BandView(raster, band, this) ==
    [kind |-> "band", height |-> raster.height, width |-> raster.width,
     raster |-> raster, band |-> band, validator |-> this]

\* data[r, c]
BandAt(data, r, c) ==
    IF data.kind = "px"
    THEN data.px[<<r, c>>]
    ELSE apply_metadata_transforms(data.validator,
                                   RasterAt(data.raster, data.band, r, c))

(***************************************************************************)
(* DataQualityValidator.interpolate_from_neighbors                         *)
(***************************************************************************)
\* the largest max_radius passed to interpolate_from_neighbors
MaxRadius == 2

\* 1 / distance is kept to 1 / WeightScale: the weight of a neighbour at
\* squared distance d2 is floor(WeightScale / sqrt(d2))
WeightScale == 100

\* max_radius=15 is what on_image_click passes
CLICK_MAX_RADIUS == 15
LargestRadius == IF MaxRadius > CLICK_MAX_RADIUS THEN MaxRadius ELSE CLICK_MAX_RADIUS

InverseDistanceTable ==
    [d2 \in 1..(2 * LargestRadius * LargestRadius) |->
        CHOOSE w \in 0..WeightScale :
            /\ w * w * d2 <= WeightScale * WeightScale
            /\ (w + 1) * (w + 1) * d2 > WeightScale * WeightScale]

InverseDistance(d2) == InverseDistanceTable[d2]

\* faulty variant: unusual neighbours are accepted as well
NeighbourQualifiesUnusual(this, value) ==
    /\ ~(this.nodata_set
           /\ IsClose(value, this.nodata_value, NODATA_ATOL))
    /\ IsFinite(value)
    /\ ~(Lt(ToCelsius(value), UNUSUAL_MIN) \/ Gt(ToCelsius(value), UNUSUAL_MAX))

\* the strict validation of one in-bounds neighbour: not nodata, finite,
\* Celsius equivalent in the NORMAL range
NeighbourQualifies(this, value) ==
    /\ ~(this.nodata_set
           /\ IsClose(value, this.nodata_value, NODATA_ATOL))
    /\ IsFinite(value)
    /\ ~(Lt(ToCelsius(value), NORMAL_MIN) \/ Gt(ToCelsius(value), NORMAL_MAX))

\* the offsets (dr, dc) of the square of one radius, the centre left out,
\* that fall inside the array
SquareNeighbours(data, row, col, radius) ==
    {rc \in ((row - radius)..(row + radius)) \X ((col - radius)..(col + radius)) :
        /\ rc # <<row, col>>
        /\ 0 <= rc[1] /\ rc[1] < data.height
        /\ 0 <= rc[2] /\ rc[2] < data.width}

\* faulty variant: only the ring added by the radius is searched
ValidNeighboursRing(this, data, row, col, radius) ==
    {rc \in SquareNeighbours(data, row, col, radius) :
        /\ NeighbourQualifies(this, BandAt(data, rc[1], rc[2]))
        /\ (Abs(rc[1] - row) = radius \/ Abs(rc[2] - col) = radius)}

\* valid_values / distances of one radius: the qualifying neighbours
ValidNeighbours(this, data, row, col, radius) ==
    {rc \in SquareNeighbours(data, row, col, radius) :
        NeighbourQualifies(this, BandAt(data, rc[1], rc[2]))}

NeighbourWeight(row, col, rc) ==
    InverseDistance((rc[1] - row) * (rc[1] - row) + (rc[2] - col) * (rc[2] - col))

\* the k-th pixel of the square scan (dr outer, dc inner)
SquarePixel(row, col, radius, k) ==
    <<row + (k \div (2 * radius + 1)) - radius,
      col + (k % (2 * radius + 1)) - radius>>

\* np.sum(1 / distances) over the scan positions lo..hi
RECURSIVE SumWeights(_, _, _, _, _, _)
SumWeights(valid, row, col, radius, lo, hi) ==
    IF lo > hi THEN 0
    ELSE IF lo = hi
    THEN IF SquarePixel(row, col, radius, lo) \in valid
         THEN NeighbourWeight(row, col, SquarePixel(row, col, radius, lo))
         ELSE 0
    ELSE SumWeights(valid, row, col, radius, lo, (lo + hi) \div 2)
           + SumWeights(valid, row, col, radius, ((lo + hi) \div 2) + 1, hi)

\* np.sum(valid_values / distances) over the scan positions lo..hi
RECURSIVE SumWeighted(_, _, _, _, _, _, _)
SumWeighted(data, valid, row, col, radius, lo, hi) ==
    IF lo > hi THEN 0
    ELSE IF lo = hi
    THEN IF SquarePixel(row, col, radius, lo) \in valid
         THEN NeighbourWeight(row, col, SquarePixel(row, col, radius, lo))
                * BandAt(data, SquarePixel(row, col, radius, lo)[1],
                               SquarePixel(row, col, radius, lo)[2])
         ELSE 0
    ELSE SumWeighted(data, valid, row, col, radius, lo, (lo + hi) \div 2)
           + SumWeighted(data, valid, row, col, radius, ((lo + hi) \div 2) + 1, hi)

\* np.average(valid_values, weights=weights) with weights = 1 / distances
WeightedAverage(data, valid, row, col, radius) ==
    SumWeighted(data, valid, row, col, radius, 0, (2 * radius + 1) * (2 * radius + 1) - 1)
      \div SumWeights(valid, row, col, radius, 0, (2 * radius + 1) * (2 * radius + 1) - 1)

\* faulty variant: the interpolated result is not validated
AcceptAnyInterpolated(interpolated) == TRUE

\* the final sanity check of the interpolated result
AcceptInterpolated(interpolated) ==
    ~(Lt(ToCelsius(interpolated), NORMAL_MIN)
        \/ Gt(ToCelsius(interpolated), NORMAL_MAX))

InterpResult(success, value, n, radius) ==
    [success |-> success, value |-> value, n |-> n, radius |-> radius]

\* the loop "for radius in range(1, max_radius + 1)" from radius on
RECURSIVE InterpolateFromRadius(_, _, _, _, _, _)
InterpolateFromRadius(this, data, row, col, max_radius, radius) ==
    IF radius > max_radius
    THEN InterpResult(FALSE, NaN, 0, max_radius)
    ELSE LET valid == ValidNeighbours(this, data, row, col, radius)
         IN  IF Cardinality(valid) >= 3
                  /\ AcceptInterpolated(WeightedAverage(data, valid, row, col, radius))
             THEN InterpResult(TRUE, WeightedAverage(data, valid, row, col, radius),
                               Cardinality(valid), radius)
             ELSE InterpolateFromRadius(this, data, row, col,
                                        max_radius, radius + 1)

interpolate_from_neighbors(this, data, row, col, max_radius) ==
    InterpolateFromRadius(this, data, row, col, max_radius, 1)

(***************************************************************************)
(* Calls of interpolate_from_neighbors on bounded inputs                   *)
(***************************************************************************)
\* the arrays: one background value and at most MaxSpecial other pixels
MaxSpecial == 2
InterpShape == [height |-> 3, width |-> 3]

\* 10 C, 300 K, -46 C and NaN
PixelPalette == {1000, 30000, -4600, NaN}

ShapeCells(height, width) == (0..(height - 1)) \X (0..(width - 1))

InterpArrays ==
    LET cells == ShapeCells(InterpShape.height, InterpShape.width) IN
    {PxArray(InterpShape.height, InterpShape.width,
             [cell \in cells |-> IF cell \in DOMAIN sp THEN sp[cell] ELSE bg]) :
        <<bg, sp>> \in PixelPalette \X
            UNION {[S -> PixelPalette] :
                     S \in {T \in SUBSET cells : Cardinality(T) <= MaxSpecial}}}

\* no nodata value, and a nodata value inside the Normal range
InterpValidators ==
    {Validator(FALSE, 0, 1, 1, 0), Validator(TRUE, 1000, 1, 1, 0)}

InterpolateCall(row, col, max_radius) ==
    /\ probe.op = "interp_input"
    /\ probe' = [op |-> "interpolate", validator |-> probe.validator,
                 data |-> probe.data, row |-> row, col |-> col,
                 max_radius |-> max_radius,
                 result |-> interpolate_from_neighbors(
                               probe.validator, probe.data, row, col, max_radius)]
    /\ UNCHANGED viewer

InitInterp ==
    /\ probe \in [op : {"interp_input"}, validator : InterpValidators,
                  data : InterpArrays]
    /\ Constructed

NextInterp ==
    \E row \in 0..(InterpShape.height - 1), col \in 0..(InterpShape.width - 1),
       max_radius \in 0..MaxRadius :
        InterpolateCall(row, col, max_radius)

SpecInterp == InitInterp /\ [][NextInterp]_vars


(***************************************************************************)
(* DataQualityValidator.__init__                                           *)
(***************************************************************************)
\* dataset.scales[band_index - 1] raises for band_index None (TypeError) and
\* for a band the dataset does not have (IndexError)
ValidatorRaises(ds, band_index) ==
    band_index = BAND_NONE \/ band_index > FileInfo(ds.file).count

DataQualityValidator(ds, band_index) ==
    LET info == FileInfo(ds.file) IN
    Validator(IsSome(info.nodata),
              IF IsSome(info.nodata) THEN Val(info.nodata) ELSE 0,
              info.scales[band_index][1], info.scales[band_index][2],
              info.offsets[band_index])

(***************************************************************************)
(* _calculate_grid_system                                                  *)
(***************************************************************************)
AdaptiveGridSize(width, height) ==
    LET max_dim == IF width > height THEN width ELSE height IN
    IF max_dim < 1000 THEN 20
    ELSE IF max_dim < 5000 THEN 40
    ELSE IF max_dim < 10000 THEN 80
    ELSE 150

\* the grid geometry with the cell counts rounded down
calculate_grid_system_floor(width, height) ==
    [grid_size |-> AdaptiveGridSize(width, height),
     grid_cols |-> width \div AdaptiveGridSize(width, height),
     grid_rows |-> height \div AdaptiveGridSize(width, height)]

\* the grid geometry; the caller also empties grid_averages
calculate_grid_system(width, height) ==
    [grid_size |-> AdaptiveGridSize(width, height),
     grid_cols |-> CeilDiv(width, AdaptiveGridSize(width, height)),
     grid_rows |-> CeilDiv(height, AdaptiveGridSize(width, height))]

(***************************************************************************)
(* _get_grid_average                                                       *)
(***************************************************************************)
\* cache_key = f"{current_band}_{grid_row}_{grid_col}"
CacheKey(band, grid_row, grid_col) == <<band, grid_row, grid_col>>

Min(a, b) == IF a < b THEN a ELSE b

\* the slice [cell_y_start:cell_y_end, cell_x_start:cell_x_end]
CellBounds(cell_size, grid_row, grid_col, width, height) ==
    [x0 |-> grid_col * cell_size,
     x1 |-> Min(grid_col * cell_size + cell_size, width),
     y0 |-> grid_row * cell_size,
     y1 |-> Min(grid_row * cell_size + cell_size, height)]

CellWidth(cell) == IF cell.x1 > cell.x0 THEN cell.x1 - cell.x0 ELSE 0
CellHeight(cell) == IF cell.y1 > cell.y0 THEN cell.y1 - cell.y0 ELSE 0

\* the k-th pixel of the cell, row by row
CellPixel(raster, band, cell, k) ==
    RasterAt(raster, band, cell.y0 + (k \div CellWidth(cell)),
                           cell.x0 + (k % CellWidth(cell)))

\* "NORMAL_MIN <= temp_celsius <= NORMAL_MAX" on a non-NaN pixel
IsNormalPixel(value) ==
    /\ ~IsNaN(value)
    /\ Le(NORMAL_MIN, ToCelsius(value))
    /\ Le(ToCelsius(value), NORMAL_MAX)

\* one pass over the pixels lo..hi of the cell:
\* <<len(valid_data), len(normal_data), sum(normal_data)>>
RECURSIVE CellScan(_, _, _, _, _)
CellScan(raster, band, cell, lo, hi) ==
    IF lo > hi THEN <<0, 0, 0>>
    ELSE IF lo = hi
    THEN LET v == CellPixel(raster, band, cell, lo) IN
         IF IsNaN(v) THEN <<0, 0, 0>>
         ELSE IF IsNormalPixel(v) THEN <<1, 1, v>> ELSE <<1, 0, 0>>
    ELSE LET a == CellScan(raster, band, cell, lo, (lo + hi) \div 2)
             b == CellScan(raster, band, cell, ((lo + hi) \div 2) + 1, hi)
         IN  <<a[1] + b[1], a[2] + b[2], a[3] + b[3]>>

\* valid: number of non-NaN pixels of the cell; mean: np.mean(normal_data),
\* NaN when no pixel of the cell is in the NORMAL range
ScanResult(valid, mean) == [valid |-> valid, mean |-> mean]

ScanCellPixels(raster, band, cell_size, grid_row, grid_col, width, height) ==
    LET cell == CellBounds(cell_size, grid_row, grid_col, width, height)
        s == CellScan(raster, band, cell, 0,
                      CellWidth(cell) * CellHeight(cell) - 1)
    IN  ScanResult(s[1], IF s[2] > 0 THEN s[3] \div s[2] ELSE NaN)

\* The scan of one cell depends on the array, the band, the cell size and the
\* cell only; it is tabulated once for the arrays, cell sizes and cells the
\* session can ask for.
MaxGridIndex == 2
ReadableFiles == {f \in Files : FileInfo(f).readable}
LoadedArrays == {ArrayOf(f, ScaleFactor(TotalPixels(f, FileInfo(f).count))) : f \in ReadableFiles}
CellSizes == {AdaptiveGridSize(a.width, a.height) : a \in LoadedArrays}
ScanKeys ==
    {k \in {<<a, band, cell_size, grid_row, grid_col>> :
                a \in LoadedArrays, band \in 1..3, cell_size \in CellSizes,
                grid_row \in 0..MaxGridIndex, grid_col \in 0..MaxGridIndex} :
        k[2] <= k[1].bands}
ScanTable ==
    [k \in ScanKeys |->
        ScanCellPixels(k[1], k[2], k[3], k[4], k[5], k[1].width, k[1].height)]

ScanCell(raster, band, cell_size, grid_row, grid_col, width, height) ==
    LET k == <<raster, IF raster.ndim = 2 THEN 1 ELSE band,
               cell_size, grid_row, grid_col>>
    IN  IF k \in ScanKeys /\ width = raster.width /\ height = raster.height
        THEN ScanTable[k]
        ELSE ScanCellPixels(raster, band, cell_size, grid_row, grid_col,
                            width, height)

\* the outcome of one _get_grid_average call: raised (indexing raster_data
\* failed), the returned value, the cache afterwards, and whether the pixels
\* of the cell were scanned
GridResult(raised, value, cache, scanned) ==
    [raised |-> raised, value |-> value, grid_averages |-> cache,
     scanned |-> scanned]

\* faulty variant: the computed average is not kept
StoreNothing(cache, cache_key, avg) == cache

\* self.grid_averages[cache_key] = avg
StoreAverage(cache, cache_key, avg) ==
    [k \in (DOMAIN cache) \cup {cache_key} |->
        IF k = cache_key THEN avg ELSE cache[k]]

\* _get_grid_average once cache_key is built; scan is the scan of the cell's
\* pixels, which is only made when the key is not in the cache
GridAverageOf(self, cache_key, scan) ==
    IF cache_key \in DOMAIN self.grid_averages
    THEN GridResult(FALSE, self.grid_averages[cache_key],
                    self.grid_averages, FALSE)
    ELSE IF ~BandIndexable(Val(self.raster_data), self.current_band)
    THEN GridResult(TRUE, NaN, self.grid_averages, FALSE)
    ELSE IF scan.valid > 0 /\ IsSome(self.validator) /\ ~IsNaN(scan.mean)
    THEN GridResult(FALSE, scan.mean,
                    StoreAverage(self.grid_averages, cache_key, scan.mean),
                    TRUE)
    ELSE GridResult(FALSE, NaN, self.grid_averages, TRUE)

get_grid_average(self, grid_row, grid_col, width, height) ==
    GridAverageOf(self,
        CacheKey(self.current_band, grid_row, grid_col),
        ScanCell(Val(self.raster_data), self.current_band, self.grid_size,
                 grid_row, grid_col, width, height))

(***************************************************************************)
(* _get_neighborhood_average                                               *)
(***************************************************************************)
neighborhood_offsets ==
    << <<-1, -1>>, <<-1, 0>>, <<-1, 1>>,
       <<0, -1>>,  <<0, 0>>,  <<0, 1>>,
       <<1, -1>>,  <<1, 0>>,  <<1, 1>> >>

\* the state of the loop over neighborhood_offsets
NeighborhoodAcc(raised, cache, sum, grids_used, total_pixels) ==
    [raised |-> raised, grid_averages |-> cache, sum |-> sum,
     grids_used |-> grids_used, total_pixels |-> total_pixels]

RECURSIVE NeighborhoodLoop(_, _, _, _, _, _, _)

\* the body of the loop for a neighbour inside the grid, g being the result
\* of its _get_grid_average call
NeighborhoodStep(self, grid_row, grid_col, width, height, i, acc, g) ==
    IF g.raised
    THEN [acc EXCEPT !.raised = TRUE]
    ELSE IF IsNaN(g.value)
    THEN NeighborhoodLoop(self, grid_row, grid_col, width, height,
             i + 1, [acc EXCEPT !.grid_averages = g.grid_averages])
    ELSE IF ~BandIndexable(Val(self.raster_data), self.current_band)
    THEN [acc EXCEPT !.raised = TRUE]
    ELSE NeighborhoodLoop(self, grid_row, grid_col, width, height,
             i + 1,
             NeighborhoodAcc(FALSE, g.grid_averages,
                 acc.sum + g.value, acc.grids_used + 1,
                 acc.total_pixels
                   + ScanCell(Val(self.raster_data), self.current_band,
                              self.grid_size,
                              grid_row + neighborhood_offsets[i][1],
                              grid_col + neighborhood_offsets[i][2],
                              width, height).valid))

\* the loop from offset number i on
NeighborhoodLoop(self, grid_row, grid_col, width, height, i, acc) ==
    IF i > Len(neighborhood_offsets) \/ acc.raised
    THEN acc
    ELSE IF ~(/\ 0 <= grid_row + neighborhood_offsets[i][1]
              /\ grid_row + neighborhood_offsets[i][1] < self.grid_rows
              /\ 0 <= grid_col + neighborhood_offsets[i][2]
              /\ grid_col + neighborhood_offsets[i][2] < self.grid_cols)
    THEN NeighborhoodLoop(self, grid_row, grid_col, width, height, i + 1, acc)
    ELSE NeighborhoodStep(self, grid_row, grid_col, width, height, i, acc,
             get_grid_average(
                 [self EXCEPT !.grid_averages = acc.grid_averages],
                 grid_row + neighborhood_offsets[i][1],
                 grid_col + neighborhood_offsets[i][2], width, height))

\* raised: an exception left the function (indexing raster_data, or np.min
\* of an empty array); value: neighborhood_avg
NeighborhoodResult(raised, value, cache, grids_used) ==
    [raised |-> raised, value |-> value, grid_averages |-> cache,
     grids_used |-> grids_used]

\* faulty variant: the sum is divided by the 9 cells of the block
NeighborhoodAverageOfNine(acc) ==
    IF acc.raised
    THEN NeighborhoodResult(TRUE, NaN, acc.grid_averages, 0)
    ELSE IF acc.grids_used > 0
    THEN NeighborhoodResult(FALSE, acc.sum \div 9, acc.grid_averages,
                            acc.grids_used)
    ELSE NeighborhoodResult(FALSE, NaN, acc.grid_averages, 0)

\* lines 1691-1703: the result of the loop
NeighborhoodAverageOf(acc) ==
    IF acc.raised
    THEN NeighborhoodResult(TRUE, NaN, acc.grid_averages, 0)
    ELSE IF acc.grids_used > 0
    THEN IF acc.total_pixels = 0
         THEN NeighborhoodResult(TRUE, NaN, acc.grid_averages, 0)
         ELSE NeighborhoodResult(FALSE, acc.sum \div acc.grids_used,
                                 acc.grid_averages, acc.grids_used)
    ELSE NeighborhoodResult(FALSE, NaN, acc.grid_averages, 0)

get_neighborhood_average(self, grid_row, grid_col, width, height) ==
    NeighborhoodAverageOf(
        NeighborhoodLoop(self, grid_row, grid_col, width, height, 1,
            NeighborhoodAcc(FALSE, self.grid_averages, 0, 0, 0)))

(***************************************************************************)
(* select_best_temperature_band                                            *)
(***************************************************************************)
\* the value of one pixel of band_data = raster_data[band_idx], after
\* "if self.validator: band_data = apply_metadata_transforms(band_data)"
BandDataAt(self, band_num, rc) ==
    IF IsSome(self.validator)
    THEN apply_metadata_transforms(Val(self.validator),
             RasterAt(Val(self.raster_data), band_num, rc[1], rc[2]))
    ELSE RasterAt(Val(self.raster_data), band_num, rc[1], rc[2])

\* len(valid_data), normal_count and band_data.size of one band
BandStats(self, band_num) ==
    LET raster == Val(self.raster_data)
        cells == ShapeCells(raster.height, raster.width)
    IN  [valid |-> Cardinality({rc \in cells :
                        IsFinite(BandDataAt(self, band_num, rc))}),
         normal |-> Cardinality({rc \in cells :
                        /\ IsFinite(BandDataAt(self, band_num, rc))
                        /\ IsSome(self.validator)
                        /\ Le(NORMAL_MIN, ToCelsius(BandDataAt(self, band_num, rc)))
                        /\ Le(ToCelsius(BandDataAt(self, band_num, rc)), NORMAL_MAX)}),
         size |-> raster.height * raster.width]

\* score = normal_percentage * 0.7 + valid_percentage * 0.3 as the fraction
\* <<numerator, denominator>>:
\* 70 * normal / valid + 30 * valid / size
BandScore(stats) ==
    <<70 * stats.normal * stats.size + 30 * stats.valid * stats.valid,
      stats.valid * stats.size>>

\* a > b on fractions with positive denominators
FractionGt(a, b) == a[1] * b[2] > b[1] * a[2]

\* the loop "for band_idx in range(self.band_count)" from band_idx on; a band
\* the array does not have raises inside the try and is skipped
RECURSIVE BestBandFrom(_, _, _, _)
BestBandFrom(self, band_idx, best_band, best_score) ==
    IF band_idx >= self.band_count
    THEN best_band
    ELSE IF band_idx + 1 > Val(self.raster_data).bands
    THEN BestBandFrom(self, band_idx + 1, best_band, best_score)
    ELSE LET stats == BandStats(self, band_idx + 1) IN
         IF stats.valid = 0
         THEN BestBandFrom(self, band_idx + 1, best_band, best_score)
         ELSE IF FractionGt(BandScore(stats), best_score)
         THEN BestBandFrom(self, band_idx + 1, band_idx + 1, BandScore(stats))
         ELSE BestBandFrom(self, band_idx + 1, best_band, best_score)

select_best_temperature_band(self) ==
    IF Val(self.raster_data).ndim = 2
    THEN 1
    ELSE BestBandFrom(self, 0, 1, <<-1, 1>>)

(***************************************************************************)
(* _detect_display_mode                                                    *)
(***************************************************************************)
\* the non-NaN values of dataset.read(1, window=((0, min(100, height)),
\* (0, min(100, width))))
SampleBand(file) ==
    {FilePixel(file, 1, r, c) :
        r \in 0..(Min(100, FileInfo(file).height) - 1),
        c \in 0..(Min(100, FileInfo(file).width) - 1)} \ {NaN}

detect_display_mode(self) ==
    LET sample_band == SampleBand(Val(self.dataset).file) IN
    IF self.band_count >= 7 /\ (\E v \in sample_band : Gt(v, 1000))
    THEN "THERMAL_MULTIBAND"
    ELSE IF /\ 3 <= self.band_count /\ self.band_count <= 4
            /\ sample_band # {}
            /\ \/ \A v \in sample_band : Le(v, 100)
               \/ /\ \A v \in sample_band : Le(v, 25500)
                  /\ \A v \in sample_band : Ge(v, 0)
    THEN "RGB_COMPOSITE"
    ELSE "THERMAL_MULTIBAND"

(***************************************************************************)
(* display_raster                                                          *)
(***************************************************************************)
MAX_PREVIEW_SIZE == 2048

\* raised: the exception caught by display_raster (nothing is displayed);
\* otherwise the preview scale factors (fractions) and the size of the pixmap
DisplayResult(raised, scale_x, scale_y, preview_width, preview_height) ==
    [raised |-> raised, preview_scale_x |-> scale_x,
     preview_scale_y |-> scale_y, preview_width |-> preview_width,
     preview_height |-> preview_height]

DisplayFailed == DisplayResult(TRUE, <<1, 1>>, <<1, 1>>, 0, 0)

\* "Generate preview at appropriate resolution": scale = min(2048 / width,
\* 2048 / height), new size = int(size * scale), preview_scale = size / new size
PreviewOf(width, height) ==
    LET max_dim == IF width > height THEN width ELSE height
        new_width == (width * MAX_PREVIEW_SIZE) \div max_dim
        new_height == (height * MAX_PREVIEW_SIZE) \div max_dim
    IN  IF width > MAX_PREVIEW_SIZE \/ height > MAX_PREVIEW_SIZE
        THEN DisplayResult(FALSE, <<width, new_width>>, <<height, new_height>>,
                           new_width, new_height)
        ELSE DisplayResult(FALSE, <<1, 1>>, <<1, 1>>, width, height)

\* len(valid_data) == 0: every pixel of the displayed band is NaN
BandAllNaN(raster, band) ==
    \A r \in 0..(raster.height - 1) :
        \A c \in 0..(raster.width - 1) : IsNaN(RasterAt(raster, band, r, c))

display_rgb_composite(self) ==
    LET raster == Val(self.raster_data) IN
    IF self.band_count < 3
         \/ (self.band_count >= 10 /\ raster.bands < 4)
         \/ raster.bands < 3
    THEN DisplayFailed
    ELSE PreviewOf(raster.width, raster.height)

display_single_band(self) ==
    LET raster == Val(self.raster_data) IN
    IF ~BandIndexable(raster, self.current_band)
    THEN DisplayFailed
    ELSE IF BandAllNaN(raster, self.current_band)
    THEN DisplayFailed
    ELSE PreviewOf(raster.width, raster.height)

display_raster(self) ==
    IF self.display_mode = "RGB_COMPOSITE" /\ Val(self.raster_data).ndim = 3
    THEN display_rgb_composite(self)
    ELSE display_single_band(self)

(***************************************************************************)
(* on_image_click                                                          *)
(***************************************************************************)
\* what one call changes: the cache, the remembered click, temp_label, and
\* the way the call ended
ClickEffect(cache, preview, raster_xy, label, out) ==
    [grid_averages |-> cache, last_click_preview |-> preview,
     last_click_raster |-> raster_xy, temp_label |-> label, click_out |-> out]

\* int(preview * preview_scale) for a scale kept as a fraction
ToRaster(preview, scale) == (preview * scale[1]) \div scale[2]

\* the Celsius value written into the labels: value - 273.15 if value > 100
DisplayedCelsius(value) == ToCelsius(value)

\* lines 2060-2119: the display strings and the labels of a value that was
\* not interpolated
ShowValue(self, cache, preview, raster_xy, value, level) ==
    IF IsNaN(value)
    THEN ClickEffect(cache, preview, raster_xy, Label("no_data", NaN),
                     ClickOut("shown", value, level))
    ELSE ClickEffect(cache, preview, raster_xy,
                     Label(IF level = "unusual" THEN "extreme" ELSE "value",
                           DisplayedCelsius(value)),
                     ClickOut("shown", value, level))

\* The interpolation around one pixel depends on the array, the band, the
\* validator and the pixel only; it is tabulated once for the arrays and
\* validators of the files and the pixels the clicks reach.
FileValidators ==
    {DataQualityValidator(Dataset(fb[1]), fb[2]) :
        fb \in {k \in {<<f, b>> : f \in ReadableFiles, b \in 1..3} :
                    k[2] <= FileInfo(k[1]).count}}
ClickedPixels == {<<0, 0>>, <<21, 21>>, <<41, 41>>}
InterpolationKeys ==
    {k \in {<<a, band, this, rc>> :
                a \in LoadedArrays, band \in 1..3, this \in FileValidators,
                rc \in ClickedPixels} :
        /\ k[2] <= k[1].bands
        /\ k[4][1] < k[1].height /\ k[4][2] < k[1].width}
InterpolationTable ==
    [k \in InterpolationKeys |->
        interpolate_from_neighbors(k[3], BandView(k[1], k[2], k[3]),
                                   k[4][1], k[4][2], CLICK_MAX_RADIUS)]

\* interpolate_from_neighbors(band_data, raster_y, raster_x, max_radius=15)
\* on band_data = apply_metadata_transforms(raster_data[current_band - 1])
InterpolateAt(raster, band, this, row, col) ==
    IF <<raster, IF raster.ndim = 2 THEN 1 ELSE band, this, <<row, col>>>>
          \in InterpolationKeys
    THEN InterpolationTable[<<raster, IF raster.ndim = 2 THEN 1 ELSE band,
                              this, <<row, col>>>>]
    ELSE interpolate_from_neighbors(this, BandView(raster, band, this),
                                    row, col, CLICK_MAX_RADIUS)

\* faulty variant: an interpolated value is shown as a measured one
ShowInterpolatedAsMeasured(cache, preview, raster_xy, value, level, interp) ==
    IF interp.success
    THEN ClickEffect(cache, preview, raster_xy,
                     Label("value", DisplayedCelsius(interp.value)),
                     ClickOut("shown", interp.value, "normal"))
    ELSE ClickEffect(cache, preview, raster_xy,
                     Label("value", DisplayedCelsius(value)),
                     ClickOut("shown", value, "normal"))

\* lines 1990-2050: interp is the result of interpolate_from_neighbors
ShowInterpolated(cache, preview, raster_xy, value, level, interp) ==
    IF interp.success
    \* the labels are written, then the final status message reads
    \* temp_short, which this path never assigned: the except branch
    THEN ClickEffect(cache, preview, raster_xy,
                     Label("estimated", DisplayedCelsius(interp.value)),
                     ClickOut("error", interp.value, "estimated"))
    ELSE ClickEffect(cache, preview, raster_xy,
                     Label(IF level = "unusual"
                           THEN "unvalidated" ELSE "no_data_value",
                           DisplayedCelsius(value)),
                     ClickOut("unvalidated", value, level))

\* lines 1973-2050: the value is not usable or unusual
Interpolate(self, cache, preview, raster_xy, value, level) ==
    IF ~BandIndexable(Val(self.raster_data), self.current_band)
    THEN ClickEffect(cache, preview, Some(raster_xy), self.temp_label,
                     ClickOut("error", value, level))
    ELSE ShowInterpolated(cache, preview, Some(raster_xy), value, level,
             InterpolateAt(Val(self.raster_data), self.current_band,
                           Val(self.validator), raster_xy[2], raster_xy[1]))

\* faulty variant: every validated value is sent to the interpolation
ShowValidatedInterpolateAll(self, cache, preview, raster_xy, value, validation) ==
    Interpolate(self, cache, preview, raster_xy, value, validation.level)

\* lines 1966-2119: validation is validate_single_value(value)
ShowValidated(self, cache, preview, raster_xy, value, validation) ==
    IF ~validation.usable \/ validation.level = "unusual"
    THEN Interpolate(self, cache, preview, raster_xy, value, validation.level)
    ELSE ShowValue(self, cache, preview, Some(raster_xy), value,
                   validation.level)

\* lines 1940-2119: nbh is the result of _get_neighborhood_average
ShowNeighborhood(self, preview, raster_xy, nbh) ==
    IF nbh.raised
    THEN ClickEffect(nbh.grid_averages, preview, Some(raster_xy),
                     self.temp_label, ClickOut("error", NaN, "none"))
    ELSE IF IsNone(self.validator)
    THEN ShowValue(self, nbh.grid_averages, preview, Some(raster_xy),
                   nbh.value, "normal")
    ELSE ShowValidated(self, nbh.grid_averages, preview, raster_xy, nbh.value,
             validate_single_value(Val(self.validator), nbh.value))

\* lines 1906-2119: the click at raster_xy = <<raster_x, raster_y>>
SampleAt(self, preview, raster_xy) ==
    IF ~(/\ 0 <= raster_xy[1] /\ raster_xy[1] < Val(self.raster_data).width
         /\ 0 <= raster_xy[2] /\ raster_xy[2] < Val(self.raster_data).height)
    THEN ClickEffect(self.grid_averages, preview, Some(raster_xy),
                     self.temp_label, ClickOut("outside", NaN, "none"))
    ELSE ShowNeighborhood(self, preview, raster_xy,
             get_neighborhood_average(self,
                 raster_xy[2] \div self.grid_size,
                 raster_xy[1] \div self.grid_size,
                 Val(self.raster_data).width, Val(self.raster_data).height))

on_image_click(self, preview_x, preview_y) ==
    IF IsNone(self.dataset) \/ IsNone(self.raster_data)
    THEN ClickEffect(self.grid_averages, self.last_click_preview,
                     self.last_click_raster, self.temp_label,
                     ClickOut("returned", NaN, "none"))
    ELSE SampleAt(self, Some(<<preview_x, preview_y>>),
                  <<ToRaster(preview_x, self.preview_scale_x),
                    ToRaster(preview_y, self.preview_scale_y)>>)

(***************************************************************************)
(* load_geotiff, one action per stretch between two processEvents() calls  *)
(* (at each of them Qt dispatches the pending clicks to their handlers)    *)
(***************************************************************************)
\* the number of load_geotiff calls of a session
MaxLoads == 2

session_vars == <<last_click_preview, last_click_raster, temp_label, click_out>>
geometry_vars == <<grid_size, grid_rows, grid_cols, grid_averages>>
preview_vars == <<preview_scale_x, preview_scale_y, pixmap_item>>

\* lines 1062-1083: the previous dataset is closed, the file is opened
LoadOpen(file) ==
    /\ load.pc = "idle"
    /\ loads < MaxLoads
    /\ FileInfo(file).openable
    /\ dataset' = Some(Dataset(file))
    /\ band_count' = FileInfo(file).count
    /\ load' = [NoLoad EXCEPT !.pc = "opened", !.file = file,
                   !.scale_factor =
                       ScaleFactor(TotalPixels(file, FileInfo(file).count))]
    /\ loads' = loads + 1
    /\ probe' = NoProbe
    /\ UNCHANGED <<raster_data, current_band, display_mode, validator,
                   geometry_vars, preview_vars, reset_enabled, session_vars>>

\* rasterio.open raises: the except branch, the previous dataset stays closed
LoadOpenFails(file) ==
    /\ load.pc = "idle"
    /\ loads < MaxLoads
    /\ ~FileInfo(file).openable
    /\ dataset' = IF IsSome(dataset) THEN Some(CloseDataset(Val(dataset)))
                  ELSE dataset
    /\ loads' = loads + 1
    /\ probe' = NoProbe
    /\ UNCHANGED <<raster_data, band_count, current_band, display_mode,
                   validator, geometry_vars, preview_vars, reset_enabled, session_vars, load>>

\* lines 1087-1111: the user answers No at the large-file prompt
LoadCancel ==
    /\ load.pc = "opened"
    /\ TotalPixels(load.file, band_count) > MAX_PIXELS_TO_LOAD
    /\ dataset' = None
    /\ load' = NoLoad
    /\ probe' = NoProbe
    /\ UNCHANGED <<raster_data, band_count, current_band, display_mode,
                   validator, geometry_vars, preview_vars, reset_enabled, session_vars, loads>>

\* lines 1118-1212 up to the next processEvents(): the bands are read
LoadRead ==
    /\ load.pc \in {"opened", "mode"}
    /\ FileInfo(load.file).readable
    /\ probe' = NoProbe
    /\ UNCHANGED <<dataset, validator, geometry_vars, preview_vars, reset_enabled,
                   session_vars, loads>>
    /\ LET array == ArrayOf(load.file, load.scale_factor)
           read == [load EXCEPT !.width = array.width, !.height = array.height]
       IN
       IF band_count = 1
       THEN /\ display_mode' = "SINGLE_BAND"
            /\ raster_data' = Some(array)
            /\ current_band' = 1
            /\ load' = [read EXCEPT !.pc = "selected"]
            /\ UNCHANGED band_count
       ELSE IF band_count >= 3 /\ load.pc = "opened"
                 /\ detect_display_mode(Self) = "THERMAL_MULTIBAND"
       THEN /\ display_mode' = "THERMAL_MULTIBAND"
            /\ load' = [load EXCEPT !.pc = "mode"]
            /\ UNCHANGED <<raster_data, band_count, current_band>>
       ELSE IF band_count >= 3
       THEN /\ display_mode' = IF load.pc = "mode" THEN display_mode
                               ELSE "RGB_COMPOSITE"
            /\ raster_data' = Some(array)
            /\ band_count' = array.bands
            /\ load' = [read EXCEPT !.pc = "read"]
            /\ UNCHANGED current_band
       ELSE /\ display_mode' = "SINGLE_BAND"
            /\ raster_data' = Some(array)
            /\ band_count' = array.bands
            /\ current_band' = select_best_temperature_band(
                                  [Self EXCEPT !.raster_data = Some(array),
                                               !.band_count = array.bands])
            /\ load' = [read EXCEPT !.pc = "selected"]

\* dataset.read raises: the except branch
LoadReadFails ==
    /\ load.pc \in {"opened", "mode"}
    /\ ~FileInfo(load.file).readable
    /\ display_mode' = IF band_count >= 3 THEN display_mode ELSE "SINGLE_BAND"
    /\ load' = NoLoad
    /\ probe' = NoProbe
    /\ UNCHANGED <<dataset, raster_data, band_count, current_band, validator,
                   geometry_vars, preview_vars, reset_enabled, session_vars, loads>>

\* lines 1160 / 1186: the band of a multi-band stack is selected
LoadSelect ==
    /\ load.pc = "read"
    /\ current_band' = select_best_temperature_band(Self)
    /\ load' = [load EXCEPT !.pc = "selected"]
    /\ probe' = [op |-> "select_band",
                 band |-> select_best_temperature_band(Self)]
    /\ UNCHANGED <<dataset, raster_data, band_count, display_mode, validator,
                   geometry_vars, preview_vars, reset_enabled, session_vars, loads>>

\* lines 1217-1230: the validator is created and the grid recomputed, which
\* empties the cache; a validator that cannot be created ends the load in the
\* except branch
LoadValidate ==
    /\ load.pc = "selected"
    /\ probe' = NoProbe
    /\ UNCHANGED <<dataset, raster_data, band_count, current_band,
                   display_mode, preview_vars, reset_enabled, session_vars, loads>>
    /\ IF ValidatorRaises(Val(dataset), current_band)
       THEN /\ load' = NoLoad
            /\ UNCHANGED <<validator, geometry_vars>>
       ELSE /\ validator' = Some(DataQualityValidator(Val(dataset), current_band))
            /\ grid_size' = calculate_grid_system(load.width, load.height).grid_size
            /\ grid_cols' = calculate_grid_system(load.width, load.height).grid_cols
            /\ grid_rows' = calculate_grid_system(load.width, load.height).grid_rows
            /\ grid_averages' = EmptyCache
            /\ load' = [load EXCEPT !.pc = "gridded"]

\* the session after display_raster returned shown
Displayed(shown) ==
    IF shown.raised
    THEN /\ reset_enabled' = TRUE
         /\ load' = NoLoad
         /\ UNCHANGED <<preview_scale_x, preview_scale_y>>
    ELSE /\ preview_scale_x' = shown.preview_scale_x
         /\ preview_scale_y' = shown.preview_scale_y
         /\ load' = [load EXCEPT !.pc = "scaled",
                                 !.preview_width = shown.preview_width,
                                 !.preview_height = shown.preview_height]
         /\ UNCHANGED reset_enabled

\* display_raster up to its last processEvents(): the preview is computed and
\* the scale factors are stored; an exception is caught by display_raster
\* and load_geotiff runs to its end without a new image
LoadDisplay ==
    /\ load.pc = "gridded"
    /\ probe' = NoProbe
    /\ UNCHANGED <<dataset, raster_data, band_count, current_band,
                   display_mode, validator, geometry_vars, pixmap_item, session_vars,
                   loads>>
    /\ Displayed(display_raster(Self))

\* graphics_view.set_image(pixmap) and the end of load_geotiff
LoadFinish ==
    /\ load.pc = "scaled"
    /\ pixmap_item' = Some([width |-> load.preview_width,
                            height |-> load.preview_height])
    /\ reset_enabled' = TRUE
    /\ load' = NoLoad
    /\ probe' = NoProbe
    /\ UNCHANGED <<dataset, raster_data, band_count, current_band,
                   display_mode, validator, geometry_vars, preview_scale_x,
                   preview_scale_y, session_vars, loads>>

(***************************************************************************)
(* The handlers of the user's input                                        *)
(***************************************************************************)
\* the preview pixels the user clicks
ClickPoints == {<<0, 0>>, <<21, 21>>}

\* the session after an on_image_click call
Clicked(effect) ==
    /\ grid_averages' = effect.grid_averages
    /\ last_click_preview' = effect.last_click_preview
    /\ last_click_raster' = effect.last_click_raster
    /\ temp_label' = effect.temp_label
    /\ click_out' = effect.click_out

\* mousePressEvent on a pixel of the displayed pixmap, then on_image_click
Click(preview_x, preview_y) ==
    /\ IsSome(pixmap_item)
    /\ preview_x < Val(pixmap_item).width
    /\ preview_y < Val(pixmap_item).height
    /\ Clicked(on_image_click(Self, preview_x, preview_y))
    /\ probe' = [op |-> "click"]
    /\ UNCHANGED <<dataset, raster_data, band_count, current_band,
                   display_mode, validator, grid_size, grid_rows, grid_cols,
                   preview_vars, reset_enabled, load, loads>>

\* the band selector: created empty; addItem is only called by
\* _populate_band_selector, which nothing calls
band_selector == <<>>

\* band_selector.itemData(index): None for an index without an item
ItemData(index) ==
    IF index + 1 \in DOMAIN band_selector THEN band_selector[index + 1]
    ELSE BAND_NONE

\* lines 1515-1536: the validator of the new band, the cache emptied, the
\* last click sampled again
BandSwitched(band, band_validator) ==
    /\ validator' = band_validator
    /\ IF IsSome(last_click_preview)
       THEN Clicked(on_image_click(
                [Self EXCEPT !.current_band = band,
                             !.validator = band_validator,
                             !.grid_averages = EmptyCache],
                Val(last_click_preview)[1], Val(last_click_preview)[2]))
       ELSE /\ grid_averages' = EmptyCache
            /\ UNCHANGED session_vars

on_band_changed(index) ==
    IF index < 0
    THEN UNCHANGED <<current_band, validator, grid_averages, session_vars>>
    ELSE /\ current_band' = ItemData(index)
         /\ IF IsSome(dataset) /\ ValidatorRaises(Val(dataset), ItemData(index))
            \* DataQualityValidator raises: the handler stops there
            THEN UNCHANGED <<validator, grid_averages, session_vars>>
            ELSE BandSwitched(ItemData(index),
                     IF IsSome(dataset)
                     THEN Some(DataQualityValidator(Val(dataset),
                                                    ItemData(index)))
                     ELSE validator)

OnBandChanged(index) ==
    /\ on_band_changed(index)
    /\ probe' = NoProbe
    /\ UNCHANGED <<dataset, raster_data, band_count, display_mode, grid_size,
                   grid_rows, grid_cols, preview_vars, reset_enabled, load, loads>>

\* the Reset View button (enabled by the first load that reaches its end)
ResetView ==
    /\ reset_enabled
    /\ last_click_preview' = None
    /\ last_click_raster' = None
    /\ temp_label' = LabelDash
    /\ probe' = NoProbe
    /\ UNCHANGED <<dataset, raster_data, band_count, current_band,
                   display_mode, validator, geometry_vars, preview_vars, reset_enabled,
                   click_out, load, loads>>

\* a direct call _get_grid_average(grid_row, grid_col, width, height) with the
\* dimensions of raster_data, as its callers pass them; the probe records
\* the call and whether the previous step was the same call
GridAverageCall(grid_row, grid_col) ==
    /\ load.pc = "idle"
    /\ IsSome(dataset)
    /\ IsSome(raster_data)
    /\ LET result == get_grid_average(Self, grid_row, grid_col,
                         Val(raster_data).width, Val(raster_data).height)
           cache_key == CacheKey(current_band, grid_row, grid_col)
           again == probe.op = "grid_average" /\ probe.cache_key = cache_key
       IN
       /\ grid_averages' = result.grid_averages
       /\ probe' = [op |-> "grid_average", cache_key |-> cache_key,
                    raised |-> result.raised, value |-> result.value,
                    scanned |-> result.scanned,
                    nth |-> IF again THEN 2 ELSE 1,
                    first |-> IF again THEN probe.first ELSE result.value]
    /\ UNCHANGED <<dataset, raster_data, band_count, current_band,
                   display_mode, validator, grid_size, grid_rows, grid_cols,
                   preview_vars, reset_enabled, session_vars, load, loads>>

\* what _get_grid_average returns for the cells of the 3x3 block that lie
\* inside the grid (NaN for the others), before the neighbourhood call
BlockAverages(self, grid_row, grid_col, width, height) ==
    [i \in DOMAIN neighborhood_offsets |->
        IF /\ 0 <= grid_row + neighborhood_offsets[i][1]
           /\ grid_row + neighborhood_offsets[i][1] < self.grid_rows
           /\ 0 <= grid_col + neighborhood_offsets[i][2]
           /\ grid_col + neighborhood_offsets[i][2] < self.grid_cols
        THEN get_grid_average(self, grid_row + neighborhood_offsets[i][1],
                 grid_col + neighborhood_offsets[i][2], width, height).value
        ELSE NaN]

\* the session and the probe after a _get_neighborhood_average call
NeighborhoodAveraged(grid_row, grid_col, cells, result) ==
    /\ grid_averages' = result.grid_averages
    /\ probe' = [op |-> "neighborhood_average", grid_row |-> grid_row,
                 grid_col |-> grid_col, cells |-> cells,
                 raised |-> result.raised, value |-> result.value,
                 grids_used |-> result.grids_used]

\* a direct call _get_neighborhood_average(grid_row, grid_col, width, height)
\* with the dimensions of raster_data, as on_image_click passes them
NeighborhoodAverageCall(grid_row, grid_col) ==
    /\ load.pc = "idle"
    /\ IsSome(dataset)
    /\ IsSome(raster_data)
    /\ NeighborhoodAveraged(grid_row, grid_col,
           BlockAverages(Self, grid_row, grid_col,
               Val(raster_data).width, Val(raster_data).height),
           get_neighborhood_average(Self, grid_row, grid_col,
               Val(raster_data).width, Val(raster_data).height))
    /\ UNCHANGED <<dataset, raster_data, band_count, current_band,
                   display_mode, validator, grid_size, grid_rows, grid_cols,
                   preview_vars, reset_enabled, session_vars, load, loads>>

Init ==
    /\ probe = NoProbe
    /\ Constructed

\* one step of a load_geotiff call
LoadStep ==
    \/ \E file \in Files : LoadOpen(file)
    \/ \E file \in Files : LoadOpenFails(file)
    \/ LoadCancel
    \/ LoadRead
    \/ LoadReadFails
    \/ LoadSelect
    \/ LoadValidate
    \/ LoadDisplay
    \/ LoadFinish

\* the session: loads, and the user's input handled whenever Qt dispatches
\* events, between two loads or inside processEvents() during a load
Next ==
    \/ LoadStep
    \/ \E point \in ClickPoints : Click(point[1], point[2])
    \/ \E index \in {-1, 0} : OnBandChanged(index)
    \/ ResetView

Spec == Init /\ [][Next]_vars

\* loads and direct calls of _get_grid_average
NextGridAverage ==
    \/ LoadStep
    \/ \E grid_row \in 0..1, grid_col \in 0..1 :
          GridAverageCall(grid_row, grid_col)
    \/ \E grid_row \in 0..1, grid_col \in 0..1 :
          NeighborhoodAverageCall(grid_row, grid_col)

SpecGridAverage == Init /\ [][NextGridAverage]_vars

(***************************************************************************)
(* Calls of _calculate_grid_system on bounded image sizes                  *)
(***************************************************************************)
\* half-width of the window of sizes taken around every mark
GridWindow == 1

\* the smallest image, one and two cells of 20, the three thresholds of
\* the cell size, and a multiple of 150
GridMarks == {1, 20, 40, 1000, 5000, 10000, 10050}

GridDims ==
    {n \in {m + d : m \in GridMarks, d \in (-GridWindow)..GridWindow} : n >= 1}

GridSystemCall ==
    /\ probe.op = "size_input"
    /\ probe' = [op |-> "grid_system", width |-> probe.width,
                 height |-> probe.height]
    /\ grid_size' = calculate_grid_system(probe.width, probe.height).grid_size
    /\ grid_cols' = calculate_grid_system(probe.width, probe.height).grid_cols
    /\ grid_rows' = calculate_grid_system(probe.width, probe.height).grid_rows
    /\ grid_averages' = EmptyCache
    /\ UNCHANGED <<dataset, raster_data, band_count, current_band,
                   display_mode, validator, preview_vars, reset_enabled,
                   last_click_preview, last_click_raster, temp_label,
                   click_out, load, loads>>

InitGridSystem ==
    /\ probe \in [op : {"size_input"}, width : GridDims, height : GridDims]
    /\ Constructed

NextGridSystem == GridSystemCall

SpecGridSystem == InitGridSystem /\ [][NextGridSystem]_vars

(***************************************************************************)
(* Calls of create_valid_mask and calculate_quality_stats on bounded bands *)
(***************************************************************************)
\* the longest band; 20 pixels meet every threshold of the quality level
MaskLen == 20

\* 20 C, 300 K, -46 C, 220 K, 500, the sentinel -9999 and NaN
MaskPalette == {2000, 30000, -4600, 22000, 50000, -999900, NaN}

\* the bands: head pixels of one value followed by pixels of another
MaskBand(n, head, x, y) == [i \in 1..n |-> IF i <= head THEN x ELSE y]

MaskBands ==
    {MaskBand(q[1], q[2], q[3], q[4]) :
        q \in {t \in (0..MaskLen) \X (0..MaskLen) \X MaskPalette \X MaskPalette :
                 t[2] <= t[1]}}

\* no nodata value, the sentinel, and a nodata value inside the Normal range
MaskValidators ==
    {Validator(FALSE, 0, 1, 1, 0), Validator(TRUE, -999900, 1, 1, 0),
     Validator(TRUE, 2000, 1, 1, 0)}

CreateValidMaskCall ==
    /\ probe.op = "band_input"
    /\ probe' = [op |-> "valid_mask", validator |-> probe.validator,
                 data |-> probe.data,
                 mask |-> create_valid_mask(probe.validator, probe.data)]
    /\ UNCHANGED viewer

QualityStatsCall ==
    /\ probe.op = "band_input"
    /\ probe' = [op |-> "quality_stats", validator |-> probe.validator,
                 data |-> probe.data,
                 stats |-> calculate_quality_stats(probe.validator, probe.data)]
    /\ UNCHANGED viewer

DetectUnitCall ==
    /\ probe.op = "band_input"
    /\ probe' = [op |-> "detect_unit", validator |-> probe.validator,
                 data |-> probe.data,
                 result |-> detect_temperature_unit(probe.validator, probe.data)]
    /\ UNCHANGED viewer

InitQuality ==
    /\ probe \in [op : {"band_input"}, validator : MaskValidators,
                  data : MaskBands]
    /\ Constructed

NextQuality == CreateValidMaskCall \/ QualityStatsCall \/ DetectUnitCall

SpecQuality == InitQuality /\ [][NextQuality]_vars

(***************************************************************************)
(* Properties of the single-value functions (checked under SpecValidate)   *)
(***************************************************************************)
Classified == probe.op = "classify"
Validated == probe.op = "validate"

\* C2: classify_temperature_level returns 'normal' for every value in
\* [0, 50] and for every value in [273.15, 323.15], bounds included.
C2_NormalRange ==
    Classified /\ (\/ Le(NORMAL_MIN, probe.value) /\ Le(probe.value, NORMAL_MAX)
                   \/ Le(KELVIN_NORMAL_MIN, probe.value)
                        /\ Le(probe.value, KELVIN_NORMAL_MAX))
      => probe.level = "normal"

C2_Witness ==
    Classified /\ probe.value = KELVIN_NORMAL_MAX /\ probe.level = "normal"

\* C3: classify_temperature_level returns 'unusual' for every value whose
\* Celsius equivalent c satisfies -60 <= c < 0 or 50 < c <= 70.
C3_UnusualRange ==
    Classified /\ (\/ Le(UNUSUAL_MIN, ToCelsius(probe.value))
                        /\ Lt(ToCelsius(probe.value), NORMAL_MIN)
                   \/ Lt(NORMAL_MAX, ToCelsius(probe.value))
                        /\ Le(ToCelsius(probe.value), UNUSUAL_MAX))
      => probe.level = "unusual"

C3_Witness ==
    Classified /\ probe.value = KELVIN_UNUSUAL_MIN /\ probe.level = "unusual"

\* C4: classify_temperature_level returns 'impossible' for every value
\* below -100 and for every value above 100 outside [213.15, 343.15].
C4_ImpossibleRange ==
    Classified /\ (\/ Lt(probe.value, IMPOSSIBLE_MIN)
                   \/ Gt(probe.value, IMPOSSIBLE_MAX)
                        /\ ~(Le(KELVIN_UNUSUAL_MIN, probe.value)
                               /\ Le(probe.value, KELVIN_UNUSUAL_MAX)))
      => probe.level = "impossible"

C4_Witness ==
    Classified /\ probe.value = KELVIN_UNUSUAL_MAX + 1
      /\ probe.level = "impossible"

\* C5: 'impossible' is returned only outside the wide sanity band: every
\* value at most 100 inside [-100, 100] and every value above 100 inside
\* [150, 400] is classified normal or unusual.
C5_ImpossibleOnlyOutsideWideBand ==
    Classified /\ (\/ Le(IMPOSSIBLE_MIN, probe.value)
                        /\ Le(probe.value, IMPOSSIBLE_MAX)
                   \/ Gt(probe.value, KELVIN_THRESHOLD)
                        /\ Le(KELVIN_MASK_MIN, probe.value)
                        /\ Le(probe.value, KELVIN_MASK_MAX))
      => probe.level \in {"normal", "unusual"}

\* |value - nodata| <= 0.01 (two equal infinities count as within tolerance)
WithinAbsTol(value, nodata) ==
    IF IsFinite(value) /\ IsFinite(nodata)
    THEN Abs(value - nodata) <= NODATA_ATOL
    ELSE value # NaN /\ nodata # NaN /\ value = nodata

\* C6: validate_single_value returns (False, "NoData value (from
\* metadata)", 'impossible') exactly when a nodata value is configured and
\* |value - nodata| <= 0.01, before the NaN/Inf check and the classification.
C6_NoDataExactlyWithinAtol ==
    Validated =>
      (probe.result = ValidateResult(FALSE, MSG_NODATA, "impossible")
         <=> (probe.validator.nodata_set
                /\ WithinAbsTol(probe.value, probe.validator.nodata_value)))

\* C7: usable is True exactly for the levels 'normal' and 'unusual' and
\* False exactly for 'impossible'; NaN and infinite inputs are unusable and
\* 'impossible'; a Normal result carries the message "Normal range".
C7_UsableIffNotImpossible ==
    Validated =>
      /\ probe.result.level \in {"normal", "unusual", "impossible"}
      /\ probe.result.usable <=> probe.result.level \in {"normal", "unusual"}
      /\ ~probe.result.usable <=> probe.result.level = "impossible"
      /\ ~IsFinite(probe.value)
           => ~probe.result.usable /\ probe.result.level = "impossible"
      /\ probe.result.level = "normal" => probe.result.msg = MSG_NORMAL

C7_Witness ==
    /\ Validated
    /\ probe.value = UNUSUAL_MAX + 1
    /\ probe.result = ValidateResult(FALSE, MSG_IMPOSSIBLE, "impossible")

\* C8: an Unusual value gets the "extreme cold" message when its Celsius
\* equivalent is below 0 and the "extreme hot" message otherwise.
C8_ColdHotByCelsiusEquivalent ==
    Validated /\ probe.result.level = "unusual" =>
      IF Lt(ToCelsius(probe.value), 0)
      THEN probe.result.msg = MSG_COLD
      ELSE probe.result.msg = MSG_HOT

(***************************************************************************)
(* Properties of interpolate_from_neighbors (checked under SpecInterp)     *)
(***************************************************************************)
Interpolated == probe.op = "interpolate"

\* C1: interpolate_from_neighbors never returns success with a value whose
\* Celsius equivalent is outside the Normal range [0, 50].
C1_InterpolatedIsNormal ==
    Interpolated /\ probe.result.success =>
      /\ Le(NORMAL_MIN, ToCelsius(probe.result.value))
      /\ Le(ToCelsius(probe.result.value), NORMAL_MAX)

\* a success computed from neighbours of both units: the value is none of
\* the pixel values
C1_Witness ==
    /\ Interpolated
    /\ probe.result.success
    /\ probe.result.value \notin PixelPalette
    /\ probe.result.n >= 3


(***************************************************************************)
(* Properties of the grid-average cache                                    *)
(***************************************************************************)
\* the probe holds the second of two consecutive calls of _get_grid_average
\* for the same cell: nothing else ran in between, so raster_data,
\* current_band and the grid geometry are those of the first call
CalledAgain == probe.op = "grid_average" /\ probe.nth = 2

\* C9 as stated: _get_grid_average is idempotent; with raster data, band and
\* grid unchanged, the second call for the same cell returns the value of
\* the first and is served from the cache without rescanning the pixels.
C9_SecondCallFromCache ==
    CalledAgain => (probe.value = probe.first /\ ~probe.scanned)

\* C9 amended: the second call returns the value of the first; it is served
\* from the cache without rescanning exactly when that value is not NaN; a
\* NaN result is not cached and the cell is scanned again.
C9_SecondCallFromCacheUnlessNaN ==
    CalledAgain =>
        /\ ~probe.raised
        /\ probe.value = probe.first
        /\ probe.scanned <=> IsNaN(probe.first)

\* a second call answered from the cache
C9_Witness ==
    CalledAgain /\ ~IsNaN(probe.first) /\ ~probe.scanned
        /\ probe.value = probe.first

\* the Normal-filtered mean of the cell of a cache key, computed from the
\* current raster_data and grid_size
FreshAverage(k) ==
    ScanCell(Val(raster_data), k[1], grid_size, k[2], k[3],
             Val(raster_data).width, Val(raster_data).height).mean

\* C10: the grid-average cache never holds a stale entry: in every state
\* reached by loads (completing, cancelled or failing), band changes and
\* clicks, every entry stored under (band, grid_row, grid_col) equals the
\* Normal-filtered mean of that cell of the current raster_data for that
\* band and the current grid_size.
C10_CacheNeverStale ==
    \A k \in DOMAIN grid_averages :
        /\ IsSome(raster_data)
        /\ BandIndexable(Val(raster_data), k[1])
        /\ grid_averages[k] = FreshAverage(k)


(***************************************************************************)
(* Properties of the band selection                                        *)
(***************************************************************************)
\* load_geotiff has just selected the band of a multi-band stack
BandSelected == probe.op = "select_band"

\* the counts of band_num taken on the values of the stack as they are
\* (scale 1, offset 0), with the Normal range applied
StackStats(band_num) ==
    BandStats([Self EXCEPT !.validator = Some(Validator(FALSE, 0, 1, 1, 0))],
              band_num)

\* band_num has a finite value and the maximum score
\* 0.7 * normal_percentage + 0.3 * valid_percentage, and is the lowest such band
HasMaxScore(band_num) ==
    /\ band_num \in 1..Val(raster_data).bands
    /\ StackStats(band_num).valid > 0
    /\ \A other \in 1..Val(raster_data).bands :
          StackStats(other).valid > 0 =>
            /\ ~FractionGt(BandScore(StackStats(other)),
                           BandScore(StackStats(band_num)))
            /\ (other < band_num =>
                  FractionGt(BandScore(StackStats(band_num)),
                             BandScore(StackStats(other))))

\* C11: the band selected when a multi-band stack is loaded is the band with
\* the maximum score 0.7*normal_percentage + 0.3*valid_percentage, bands
\* without a finite value skipped and ties going to the lowest index, on the
\* first load of a session as well as on later loads.
C11_SelectsMaxScoreBand == BandSelected => HasMaxScore(probe.band)

\* C12: band selection is deterministic in the stack alone: the band selected
\* for a stack is the one selected for it in a session without a validator
\* (the first load), whatever validator an earlier load left behind.
C12_SelectionIgnoresSession ==
    BandSelected =>
        probe.band = select_best_temperature_band(
                         [Self EXCEPT !.validator = None])


(***************************************************************************)
(* Properties of a sample query (on_image_click)                           *)
(***************************************************************************)
\* on_image_click has just handled a click inside the raster: raster_data,
\* current_band, validator and the grid are those the call used
Sampled ==
    /\ probe.op = "click"
    /\ click_out.path \in {"shown", "unvalidated", "error"}
    /\ IsSome(last_click_raster)

\* the pixels of the 3x3 neighborhood of cells around the click
NeighborhoodPixels ==
    LET raster == Val(raster_data)
        grid_row == Val(last_click_raster)[2] \div grid_size
        grid_col == Val(last_click_raster)[1] \div grid_size
    IN  {r \in ((grid_row - 1) * grid_size)..((grid_row + 2) * grid_size - 1) :
            0 <= r /\ r < raster.height}
        \X
        {c \in ((grid_col - 1) * grid_size)..((grid_col + 2) * grid_size - 1) :
            0 <= c /\ c < raster.width}

\* raw * scale + offset for the pixel rc of the current band
TransformedPixel(rc) ==
    apply_metadata_transforms(Val(validator),
        RasterAt(Val(raster_data), current_band, rc[1], rc[2]))

\* C13: on every path of a sample query each raw pixel value has scale and
\* offset applied exactly once before it is filtered, averaged or classified;
\* so a grid average that is classified and shown is an average of values
\* raw*scale + offset and lies between the least and the greatest
\* transformed pixel of the cells it was taken from.
C13_AveragedValuesTransformedOnce ==
    (Sampled /\ click_out.path = "shown" /\ IsSome(validator)
        /\ ~IsNaN(click_out.value)) =>
        /\ \E rc \in NeighborhoodPixels :
              Le(TransformedPixel(rc), click_out.value)
        /\ \E rc \in NeighborhoodPixels :
              Le(click_out.value, TransformedPixel(rc))


\* the 3x3 neighborhood average of the clicked cell, as the click computed it
\* (the cells it cached are read back from the cache)
ClickedAverage ==
    get_neighborhood_average(Self,
        Val(last_click_raster)[2] \div grid_size,
        Val(last_click_raster)[1] \div grid_size,
        Val(raster_data).width, Val(raster_data).height)

\* the validation of that average
ClickedValidation == validate_single_value(Val(validator), ClickedAverage.value)

\* the stored value of the clicked pixel
ClickedPixel ==
    RasterAt(Val(raster_data), current_band,
             Val(last_click_raster)[2], Val(last_click_raster)[1])

\* C14: when the 3x3 neighborhood average of the clicked cell classifies as
\* Normal, on_image_click reports that average with level Normal and does
\* not invoke interpolation, whatever the clicked pixel itself holds.
C14_NormalAverageShown ==
    (Sampled /\ IsSome(validator) /\ ~ClickedAverage.raised
        /\ ClickedValidation.level = "normal") =>
        /\ click_out = ClickOut("shown", ClickedAverage.value, "normal")
        /\ temp_label = Label("value", DisplayedCelsius(ClickedAverage.value))

\* a click on a sentinel pixel whose neighborhood average is Normal
C14_Witness ==
    /\ Sampled /\ IsSome(validator) /\ ~ClickedAverage.raised
    /\ ClickedValidation.level = "normal"
    /\ BandIndexable(Val(raster_data), current_band)
    /\ ~IsNormalPixel(ClickedPixel)
    /\ click_out.path = "shown"


\* the interpolation centred on the exact clicked pixel (row raster_y, column
\* raster_x) of the current band after apply_metadata_transforms
ClickedInterpolation ==
    InterpolateAt(Val(raster_data), current_band, Val(validator),
                  Val(last_click_raster)[2], Val(last_click_raster)[1])

\* the neighborhood average of the click classified as Unusual or Impossible
AverageRejected ==
    /\ Sampled /\ IsSome(validator) /\ ~ClickedAverage.raised
    /\ BandIndexable(Val(raster_data), current_band)
    /\ (~ClickedValidation.usable \/ ClickedValidation.level = "unusual")

C16_UnusualPixelEstimated ==
    (/\ Sampled /\ IsSome(validator)
     /\ BandIndexable(Val(raster_data), current_band)
     /\ classify_temperature_level(
            TransformedPixel(<<Val(last_click_raster)[2],
                               Val(last_click_raster)[1]>>)) = "unusual"
     /\ ClickedInterpolation.success) =>
        /\ click_out.level = "estimated"
        /\ click_out.value = ClickedInterpolation.value

\* the validation level of the value the click ended with
ShownLevel ==
    IF IsSome(validator)
    THEN validate_single_value(Val(validator), click_out.value).level
    ELSE classify_temperature_level(click_out.value)

\* temp_label holds a temperature figure
FigureShown ==
    /\ temp_label.kind \in {"value", "extreme", "unvalidated", "no_data_value"}
    /\ ~IsNaN(temp_label.value)

\* C17: after any click on a loaded raster the temperature shown to the user
\* is never a value whose validation level is 'impossible': such a value is
\* replaced by an Estimated one or no temperature figure is shown.
C17_ImpossibleNeverShown ==
    (Sampled /\ click_out.path \in {"shown", "unvalidated"}) =>
        ~(FigureShown /\ ShownLevel = "impossible")

(***************************************************************************)
(* C18  For every width, height >= 1, _calculate_grid_system sets          *)
(* grid_size to 20 when max(width, height) < 1000, 40 when < 5000, 80 when *)
(* < 10000 and 150 otherwise, grid_cols to ceil(width / grid_size) and     *)
(* grid_rows to ceil(height / grid_size), so every in-bounds pixel (x, y)  *)
(* lies in a cell (y // grid_size, x // grid_size) of the grid.            *)
(***************************************************************************)
GridSystemSet == probe.op = "grid_system"

\* n is the least number of cells of size cell that cover dim pixels
IsCeil(n, dim, cell) == n * cell >= dim /\ (n - 1) * cell < dim

C18_GridSystemCoversImage ==
    GridSystemSet =>
        /\ (probe.width < 1000 /\ probe.height < 1000) => grid_size = 20
        /\ (probe.width < 5000 /\ probe.height < 5000
              /\ (probe.width >= 1000 \/ probe.height >= 1000)) => grid_size = 40
        /\ (probe.width < 10000 /\ probe.height < 10000
              /\ (probe.width >= 5000 \/ probe.height >= 5000)) => grid_size = 80
        /\ (probe.width >= 10000 \/ probe.height >= 10000) => grid_size = 150
        /\ IsCeil(grid_cols, probe.width, grid_size)
        /\ IsCeil(grid_rows, probe.height, grid_size)
        /\ \A x \in 0..(probe.width - 1) :
              x \div grid_size >= 0 /\ x \div grid_size < grid_cols
        /\ \A y \in 0..(probe.height - 1) :
              y \div grid_size >= 0 /\ y \div grid_size < grid_rows

\* a 1000 x 999 image: cells of 40, 25 columns, and 25 rows of which the
\* last is cut short
C18_Witness ==
    /\ GridSystemSet
    /\ probe.width = 1000 /\ probe.height = 999
    /\ grid_size = 40 /\ grid_cols = 25 /\ grid_rows = 25

(***************************************************************************)
(* C19  create_valid_mask keeps every Unusual-but-valid pixel: whatever    *)
(* the other pixels of the band are, the mask is True at every pixel that  *)
(* is finite, not within 0.01 of nodata, and classified normal or unusual. *)
(***************************************************************************)
MaskCreated == probe.op = "valid_mask"

ValidPixel(this, value) ==
    /\ IsFinite(value)
    /\ ~(this.nodata_set /\ WithinAbsTol(value, this.nodata_value))
    /\ classify_temperature_level(value) \in {"normal", "unusual"}

C19_MaskKeepsValidPixels ==
    MaskCreated =>
        \A i \in DOMAIN probe.data :
            ValidPixel(probe.validator, probe.data[i]) => probe.mask[i]

(***************************************************************************)
(* C20  calculate_quality_stats reports valid_percentage = valid_pixels /  *)
(* total_pixels * 100 (0.0 for an empty band) with 0 <= valid_pixels <=    *)
(* total_pixels, and quality_level Excellent iff the percentage is >= 95,  *)
(* Good iff in [80, 95), Fair iff in [60, 80), Poor iff in [30, 60), Very  *)
(* Poor iff < 30.                                                          *)
(***************************************************************************)
StatsReported == probe.op = "quality_stats"

\* 100 * valid >= threshold * total, the percentage taken as 0 when total = 0
PercentAtLeast(stats, threshold) ==
    IF stats.total_pixels = 0
    THEN 0 >= threshold
    ELSE 100 * stats.valid_pixels >= threshold * stats.total_pixels

C20_QualityStats ==
    StatsReported =>
        LET stats == probe.stats IN
        /\ stats.total_pixels = Len(probe.data)
        /\ 0 <= stats.valid_pixels /\ stats.valid_pixels <= stats.total_pixels
        /\ stats.valid_percentage[1] * (IF stats.total_pixels = 0 THEN 1 ELSE stats.total_pixels)
             = (IF stats.total_pixels = 0 THEN 0 ELSE 100 * stats.valid_pixels)
                 * stats.valid_percentage[2]
        /\ stats.valid_percentage[2] > 0
        /\ stats.quality_level = "Excellent" <=> PercentAtLeast(stats, 95)
        /\ stats.quality_level = "Good" <=>
              PercentAtLeast(stats, 80) /\ ~PercentAtLeast(stats, 95)
        /\ stats.quality_level = "Fair" <=>
              PercentAtLeast(stats, 60) /\ ~PercentAtLeast(stats, 80)
        /\ stats.quality_level = "Poor" <=>
              PercentAtLeast(stats, 30) /\ ~PercentAtLeast(stats, 60)
        /\ stats.quality_level = "Very Poor" <=> ~PercentAtLeast(stats, 30)

\* 19 valid pixels of 20: exactly 95 percent, Excellent
C20_Witness ==
    /\ StatsReported
    /\ probe.stats.total_pixels = 20 /\ probe.stats.valid_pixels = 19
    /\ probe.stats.quality_level = "Excellent"

(***************************************************************************)
(* C21  For every band, detect_temperature_unit returns, without raising,  *)
(* exactly one of 'Kelvin', 'Celsius', 'Kelvin (assumed)', 'Celsius        *)
(* (assumed)', 'Unknown'; 'Unknown' exactly when no pixel survives the     *)
(* validity mask.                                                          *)
(***************************************************************************)
C21_UnitDetectedWithoutRaising ==
    probe.op = "detect_unit" =>
        /\ probe.result.raised = ""
        /\ probe.result.unit \in {"Kelvin", "Celsius", "Kelvin (assumed)",
                                  "Celsius (assumed)", "Unknown"}
        /\ probe.result.unit = "Unknown" <=>
              MaskSum(create_valid_mask(probe.validator, probe.data)) = 0

(***************************************************************************)
(* C22  A click whose raster coordinates fall outside the raster fails     *)
(* loudly: it ends in the error report, and it leaves the remembered       *)
(* last-click location, the label and the cache as they were.              *)
(***************************************************************************)
\* the click at preview pixel xy lands outside the loaded raster
LandsOutside(xy) ==
    /\ IsSome(dataset) /\ IsSome(raster_data)
    /\ ~(/\ ToRaster(xy[1], preview_scale_x) < Val(raster_data).width
         /\ ToRaster(xy[2], preview_scale_y) < Val(raster_data).height)

C22_OutsideClickFailsLoudly ==
    [][\A xy \in ClickPoints :
          (LandsOutside(xy) /\ Click(xy[1], xy[2])) =>
              /\ click_out'.path = "error"
              /\ last_click_preview' = last_click_preview
              /\ last_click_raster' = last_click_raster
              /\ temp_label' = temp_label
              /\ grid_averages' = grid_averages]_vars

(***************************************************************************)
(* C23  Operations are atomic with respect to each other: no click is      *)
(* handled while load_geotiff is in progress, so a sample never sees a     *)
(* raster of one load with the grid geometry of another.                   *)
(***************************************************************************)
\* the grid geometry is the one _calculate_grid_system gives the raster
GeometryOfRaster ==
    /\ grid_size = AdaptiveGridSize(Val(raster_data).width, Val(raster_data).height)
    /\ grid_cols = CeilDiv(Val(raster_data).width, grid_size)
    /\ grid_rows = CeilDiv(Val(raster_data).height, grid_size)

C23_NoClickDuringLoad ==
    (probe.op = "click" /\ click_out.path # "returned") =>
        /\ load.pc = "idle"
        /\ GeometryOfRaster

(***************************************************************************)
(* C24  interpolate_from_neighbors returns (True, v, n, r) if and only if  *)
(* r is the smallest radius in 1..max_radius whose full square around the  *)
(* pixel holds at least 3 qualifying neighbours with an inverse-distance   *)
(* weighted mean v in the Normal range; n counts the qualifying neighbours *)
(* of the whole square, so n >= 3.  Otherwise it returns (False, NaN, 0,   *)
(* max_radius).                                                            *)
(***************************************************************************)
\* the neighbours the claim lets into the mean: in the raster, within the
\* square, not the centre, not within 0.01 of nodata, finite, Normal
Trustworthy(radius) ==
    {rc \in ShapeCells(probe.data.height, probe.data.width) :
        /\ rc # <<probe.row, probe.col>>
        /\ Abs(rc[1] - probe.row) <= radius
        /\ Abs(rc[2] - probe.col) <= radius
        /\ IsFinite(BandAt(probe.data, rc[1], rc[2]))
        /\ ~(probe.validator.nodata_set
              /\ WithinAbsTol(BandAt(probe.data, rc[1], rc[2]),
                              probe.validator.nodata_value))
        /\ classify_temperature_level(BandAt(probe.data, rc[1], rc[2])) = "normal"}

TrustworthyMean(radius) ==
    WeightedAverage(probe.data, Trustworthy(radius), probe.row, probe.col, radius)

\* the radii at which the search may stop
AcceptingRadii ==
    {radius \in 1..probe.max_radius :
        /\ Cardinality(Trustworthy(radius)) >= 3
        /\ classify_temperature_level(TrustworthyMean(radius)) = "normal"}

C24_SmallestAcceptingRadius ==
    Interpolated =>
        IF AcceptingRadii = {}
        THEN probe.result = InterpResult(FALSE, NaN, 0, probe.max_radius)
        ELSE /\ probe.result.success
             /\ probe.result.radius \in AcceptingRadii
             /\ \A radius \in AcceptingRadii : probe.result.radius <= radius
             /\ probe.result.value = TrustworthyMean(probe.result.radius)
             /\ probe.result.n = Cardinality(Trustworthy(probe.result.radius))
             /\ probe.result.n >= 3

\* from a corner, radius 1 holds too few neighbours and radius 2 succeeds
\* with the neighbours of the whole square
C24_Witness ==
    /\ Interpolated
    /\ probe.row = 0 /\ probe.col = 0 /\ probe.max_radius = 2
    /\ probe.result.success
    /\ probe.result.radius = 2
    /\ probe.result.n = 6

(***************************************************************************)
(* C25  Only trustworthy in-bounds neighbours contribute to an             *)
(* interpolation: a pixel that is out of the raster, is the queried centre *)
(* pixel, is within 0.01 of nodata, is NaN/Inf, or whose Celsius           *)
(* equivalent is outside [0, 50] never enters the weighted mean; hence     *)
(* changing only the value stored at the queried pixel leaves the result   *)
(* of interpolate_from_neighbors unchanged.                                *)
(***************************************************************************)
\* the array with another value at the queried pixel
WithCentre(value) ==
    [probe.data EXCEPT !.px[<<probe.row, probe.col>>] = value]

C25_OnlyTrustworthyNeighbours ==
    Interpolated =>
        /\ \A radius \in 1..probe.max_radius :
              ValidNeighbours(probe.validator, probe.data, probe.row,
                              probe.col, radius) \subseteq Trustworthy(radius)
        /\ \A value \in PixelPalette :
              interpolate_from_neighbors(probe.validator, WithCentre(value),
                  probe.row, probe.col, probe.max_radius) = probe.result

\* an estimate for a -46 C pixel of an array that holds a NaN pixel too
C25_Witness ==
    /\ Interpolated
    /\ probe.result.success
    /\ BandAt(probe.data, probe.row, probe.col) = -4600
    /\ \E rc \in DOMAIN probe.data.px : probe.data.px[rc] = NaN

(***************************************************************************)
(* C26  _get_neighborhood_average returns the unweighted mean of the       *)
(* per-cell grid averages of exactly those cells of the 3x3 block around   *)
(* (grid_row, grid_col) that lie inside the grid and have a non-NaN        *)
(* average; grids_used is the number of such cells (at most 9, at most 4   *)
(* at a corner of a grid with at least 2 rows and columns); it returns NaN *)
(* with grids_used = 0 exactly when there is no such cell.                 *)
(***************************************************************************)
NeighborhoodCalled == probe.op = "neighborhood_average"

\* the cells of the block that count: inside the grid, average not NaN
CountedCells == {i \in DOMAIN probe.cells : ~IsNaN(probe.cells[i])}

RECURSIVE CountedSum(_)
CountedSum(i) ==
    IF i = 0 THEN 0
    ELSE CountedSum(i - 1) + (IF i \in CountedCells THEN probe.cells[i] ELSE 0)

AtCorner ==
    /\ probe.grid_row \in {0, grid_rows - 1}
    /\ probe.grid_col \in {0, grid_cols - 1}
    /\ grid_rows >= 2 /\ grid_cols >= 2

C26_MeanOfCellAverages ==
    NeighborhoodCalled =>
        /\ ~probe.raised
        /\ probe.grids_used = Cardinality(CountedCells)
        /\ probe.grids_used <= 9
        /\ AtCorner => probe.grids_used <= 4
        /\ IF CountedCells = {}
           THEN IsNaN(probe.value)
           ELSE probe.value = CountedSum(9) \div Cardinality(CountedCells)

\* the four cells of the 2 x 2 grid of site_b.tif: one average of 30 C and
\* three of 293.15 K
C26_Witness ==
    /\ NeighborhoodCalled
    /\ AtCorner
    /\ probe.grids_used = 4
    /\ \E i, j \in CountedCells : probe.cells[i] # probe.cells[j]

(***************************************************************************)
(* C27  Whenever interpolation succeeds inside on_image_click, the click   *)
(* completes on the normal path: the labels, the final status-bar message  *)
(* and the floating label are produced for the estimated value, and the    *)
(* handler never ends in the 'Error sampling point' branch.                *)
(***************************************************************************)
C27_EstimateCompletes ==
    (probe.op = "click" /\ click_out.level = "estimated") =>
        click_out.path = "shown"

(***************************************************************************)
(* C28  A pixel whose value is within 0.01 of the configured nodata value  *)
(* never contributes to a grid-cell average, for every nodata value,       *)
(* including one that lies in the Normal range (nodata = 0): the average   *)
(* of a cell is NaN when the cell has no Normal pixel other than nodata,   *)
(* and lies between the least and the greatest such pixel otherwise.       *)
(***************************************************************************)
\* _get_grid_average has just computed the average of a cell from its pixels
CellAveraged ==
    /\ probe.op = "grid_average" /\ probe.scanned /\ ~probe.raised
    /\ IsSome(validator)

\* the values of the Normal pixels of the cell that are not nodata
TrustedCellValues ==
    LET cell == CellBounds(grid_size, probe.cache_key[2], probe.cache_key[3],
                           Val(raster_data).width, Val(raster_data).height)
    IN  {v \in {RasterAt(Val(raster_data), probe.cache_key[1], r, c) :
                   r \in cell.y0..(cell.y1 - 1), c \in cell.x0..(cell.x1 - 1)} :
            /\ IsNormalPixel(v)
            /\ ~(Val(validator).nodata_set
                   /\ WithinAbsTol(v, Val(validator).nodata_value))}

C28_NodataNeverAveraged ==
    CellAveraged =>
        IF TrustedCellValues = {}
        THEN IsNaN(probe.value)
        ELSE /\ ~IsNaN(probe.value)
             /\ \E lo \in TrustedCellValues : lo <= probe.value
             /\ \E hi \in TrustedCellValues : probe.value <= hi

(***************************************************************************)
(* C29  Every non-NaN value returned by _get_grid_average, and every       *)
(* non-NaN neighbourhood average returned by _get_neighborhood_average, is *)
(* classified 'normal' by classify_temperature_level, for every cell       *)
(* content, including cells that mix values above 100 with values at or    *)
(* below 100.                                                              *)
(***************************************************************************)
C29_AveragesAreNormal ==
    (/\ probe.op \in {"grid_average", "neighborhood_average"}
     /\ ~probe.raised
     /\ ~IsNaN(probe.value)) =>
        classify_temperature_level(probe.value) = "normal"

(***************************************************************************)
(* C30  A load_geotiff call that does not complete (the user answers No at *)
(* the large-file prompt, or opening or reading the file raises) leaves    *)
(* the previously loaded session unchanged: between two loads, the dataset *)
(* of the raster in memory is still there, still open, and dataset and     *)
(* band_count still describe the file raster_data was read from.           *)
(***************************************************************************)
C30_IncompleteLoadKeepsSession ==
    (load.pc = "idle" /\ IsSome(raster_data)) =>
        /\ IsSome(dataset)
        /\ ~Val(dataset).closed
        /\ Val(dataset).file = Val(raster_data).file
        /\ band_count = Val(raster_data).bands

====
